---- MODULE Spec2Model ----
(***************************************************************************)
(* Model of backend/services/news_concierge.py (NewsConciergeService):     *)
(* the retrieval side, _execute_advanced_search and the five-stage cascade *)
(* _execute_multi_stage_search with its helpers _filter_relevant_documents,*)
(* _remove_duplicates, _deduplicate_articles and _get_keyword_synonyms.    *)
(*                                                                         *)
(* Text is a sequence of characters.  A character is a one-element string; *)
(* a Hangul syllable is written as its romanised name ("sam", "jeon"): the *)
(* module is written in ASCII.  Floating-point relevance scores are kept   *)
(* as integers scaled by 100 (score/100.0 becomes score).                  *)
(***************************************************************************)
EXTENDS Integers, Sequences, FiniteSets, TLC

(***************************************************************************)
(* Bounds of the model                                                     *)
(***************************************************************************)
\* largest max_articles (target_count) a request is run with
MaxTarget == 4
\* longest document list one provider response holds
MaxResp == 2

(***************************************************************************)
(* Program constants                                                       *)
(***************************************************************************)
\* stage 5 runs only below this accumulated count
Stage5Limit == 3
\* keywords[:2] of the AND stages, keywords[:3] of the OR stages and filter
AndKeywords == 2
OrKeywords == 3
FilterKeywords == 3
\* return_size of the five stage calls
ReturnSize1 == 20
ReturnSize2 == 30
ReturnSize3 == 25
ReturnSize4 == 30
ReturnSize5 == 20
\* day windows of stages 3/4 and 5
ExtendedDays == 30
LastResortDays == 90
\* synonyms[:2]
MaxSynonyms == 2
\* weights of the strict relevance score, times 100
TitleWeight == 1000
MatchWeight == 200

(***************************************************************************)
(* Sequences and Python slices                                             *)
(***************************************************************************)
Min(a, b) == IF a <= b THEN a ELSE b
Max(a, b) == IF a >= b THEN a ELSE b

Range(s) == {s[i] : i \in DOMAIN s}

\* Python s[:n], negative n included
Slice(s, n) ==
    IF n >= 0 THEN SubSeq(s, 1, Min(n, Len(s)))
    ELSE SubSeq(s, 1, Max(Len(s) + n, 0))

\* the entries of s at the positions S, in order
Restrict(s, S) ==
    LET nth(k) == CHOOSE i \in S : Cardinality({j \in S : j <= i}) = k
    IN  [k \in 1..Cardinality(S) |-> s[nth(k)]]

\* all sequences over S of length at most n
SeqsUpTo(S, n) == UNION {[1..k -> S] : k \in 0..n}

(***************************************************************************)
(* str.lower() and the substring test `a in b`                             *)
(***************************************************************************)
lower_char(c) ==
    CASE c = "A" -> "a" [] c = "B" -> "b" [] c = "G" -> "g" [] c = "H" -> "h"
      [] c = "I" -> "i" [] c = "L" -> "l" [] c = "M" -> "m" [] c = "P" -> "p"
      [] c = "U" -> "u" [] OTHER -> c

lower(s) == [i \in DOMAIN s |-> lower_char(s[i])]

is_substring(needle, hay) ==
    \E i \in 0..(Len(hay) - Len(needle)) :
        SubSeq(hay, i + 1, i + Len(needle)) = needle

(***************************************************************************)
(* Keywords and documents of the model                                     *)
(***************************************************************************)
SAMSUNG == <<"sam", "seong", "jeon", "ja">>
HBM == <<"H", "B", "M">>
AI == <<"A", "I">>
GPU == <<"G", "P", "U">>
LG == <<"L", "G">>
LG_ELEC == <<"L", "G", "jeon", "ja">>
LG_GROUP == <<"L", "G", "geu", "rup">>

\* what query_processor.preprocess_query extracts (weights dropped)
ProcessedKeywordLists ==
    { <<>>, <<HBM>>, <<SAMSUNG, HBM>>, <<SAMSUNG, HBM, AI, GPU>>, <<LG>> }

\* a document the filter has not scored carries no _relevance_score
NoScore == 0 - 1

Doc(id, title, content, score) ==
    [news_id |-> id, title |-> title, content |-> content, score |-> score,
     relevance_score |-> NoScore]

\* "" is a missing or empty news_id
Documents ==
    { Doc("n1", SAMSUNG \o <<" ">> \o lower(HBM), AI, 50),
      Doc("n2", HBM, lower(SAMSUNG), 80),
      Doc("n1", lower(AI), SAMSUNG \o <<" ">> \o HBM, 0),
      Doc("", SAMSUNG \o <<" ">> \o HBM \o <<" ">> \o AI, <<>>, 10),
      Doc("n3", lower(HBM), <<>>, 50) }

Questions == {"q1"}

(***************************************************************************)
(* _get_keyword_synonyms                                                   *)
(***************************************************************************)
\* exact_keywords: never expanded (the entries the model's alphabet spells)
exact_keywords ==
    { lower(SAMSUNG), lower(HBM), lower(AI), lower(GPU),
      <<"l", "g", "jeon", "ja">> }

\* all_synonyms: the merged dictionaries (the entry the model's alphabet spells)
all_synonyms(keyword_lower) ==
    IF keyword_lower = <<"l", "g">> THEN <<LG_ELEC, LG_GROUP>> ELSE <<>>

\* the orders in which a set can be listed
Orderings(S) ==
    {p \in [1..Cardinality(S) -> S] : \A i, j \in DOMAIN p : i # j => p[i] # p[j]}

\* the lists the call can return: set(synonyms) is listed in hash order
get_keyword_synonyms(keyword) ==
    LET keyword_lower == lower(keyword)
        synonyms == all_synonyms(keyword_lower)
        kept == {s \in Range(synonyms) : lower(s) # keyword_lower}
    IN  IF keyword_lower \in exact_keywords THEN {<<>>}
        ELSE {Slice(p, MaxSynonyms) : p \in Orderings(kept)}

\* list(dict.fromkeys(s)): first occurrences, in order
RECURSIVE unique_keywords(_)
unique_keywords(s) ==
    IF s = <<>> THEN <<>>
    ELSE LET init == unique_keywords(SubSeq(s, 1, Len(s) - 1))
             last == s[Len(s)]
         IN  IF last \in Range(init) THEN init ELSE Append(init, last)

\* the expanded keyword lists the loop over processed_keywords can build
RECURSIVE expanded_keywords(_)
expanded_keywords(processed) ==
    IF processed = <<>> THEN {<<>>}
    ELSE LET keyword == processed[Len(processed)]
         IN  {init \o <<keyword>> \o synonyms :
                 init \in expanded_keywords(SubSeq(processed, 1, Len(processed) - 1)),
                 synonyms \in get_keyword_synonyms(keyword)}

(***************************************************************************)
(* _filter_relevant_documents (strict policy)                              *)
(***************************************************************************)
full_text(doc) == lower(doc.title) \o <<" ">> \o lower(doc.content)

\* the keywords a request of the model can carry
Vocabulary == {SAMSUNG, HBM, AI, GPU, LG, LG_ELEC, LG_GROUP}

\* `keyword_lower in full_text` and `keyword_lower in title`, tabulated once
\* for the provider's documents
in_full_text ==
    [doc \in Documents |->
        [kw \in Vocabulary |-> is_substring(lower(kw), full_text(doc))]]
in_title ==
    [doc \in Documents |->
        [kw \in Vocabulary |-> is_substring(lower(kw), lower(doc.title))]]

\* keyword_matches: how many of keywords[:3] occur in title + " " + content
keyword_matches(doc, kws) ==
    Cardinality({i \in DOMAIN Slice(kws, FilterKeywords) :
                    in_full_text[doc][kws[i]]})

\* title_matches: those of them that occur in the title
title_matches(doc, kws) ==
    Cardinality({i \in DOMAIN Slice(kws, FilterKeywords) :
                    /\ in_full_text[doc][kws[i]]
                    /\ in_title[doc][kws[i]]})

\* a filter that accepts on half of the keywords
MutAcceptsHalf(doc, kws) ==
    2 * keyword_matches(doc, kws) >= Len(Slice(kws, FilterKeywords))

\* the acceptance test: every one of keywords[:3] matched
accepts(doc, kws) ==
    keyword_matches(doc, kws) >= Len(Slice(kws, FilterKeywords))

\* a score without the provider's score
MutScoreNoProvider(doc, kws) ==
    title_matches(doc, kws) * TitleWeight + keyword_matches(doc, kws) * MatchWeight

\* final_score, times 100
final_score(doc, kws) ==
    title_matches(doc, kws) * TitleWeight
    + keyword_matches(doc, kws) * MatchWeight
    + (IF doc.score # 0 THEN doc.score ELSE 0)

\* a descending sort that puts the later of two equal documents first
RECURSIVE MutSortTiesReversed(_)
MutSortTiesReversed(docs) ==
    IF docs = <<>> THEN <<>>
    ELSE LET init == MutSortTiesReversed(SubSeq(docs, 1, Len(docs) - 1))
             x == docs[Len(docs)]
             ahead == {i \in DOMAIN init : init[i].relevance_score > x.relevance_score}
             k == IF ahead = {} THEN 0 ELSE CHOOSE i \in ahead : \A j \in ahead : j <= i
         IN  SubSeq(init, 1, k) \o <<x>> \o SubSeq(init, k + 1, Len(init))

\* list.sort(key=_relevance_score, reverse=True): stable, descending
RECURSIVE sort_by_relevance(_)
sort_by_relevance(docs) ==
    IF docs = <<>> THEN <<>>
    ELSE LET init == sort_by_relevance(SubSeq(docs, 1, Len(docs) - 1))
             x == docs[Len(docs)]
             ahead == {i \in DOMAIN init : init[i].relevance_score >= x.relevance_score}
             k == IF ahead = {} THEN 0 ELSE CHOOSE i \in ahead : \A j \in ahead : j <= i
         IN  SubSeq(init, 1, k) \o <<x>> \o SubSeq(init, k + 1, Len(init))

RECURSIVE scored_accepted(_, _)
scored_accepted(docs_in, kws) ==
    IF docs_in = <<>> THEN <<>>
    ELSE LET init == scored_accepted(SubSeq(docs_in, 1, Len(docs_in) - 1), kws)
             doc == docs_in[Len(docs_in)]
         IN  IF accepts(doc, kws)
             THEN Append(init, [doc EXCEPT !.relevance_score = final_score(doc, kws)])
             ELSE init

filter_relevant_documents(docs_in, kws) ==
    IF docs_in = <<>> \/ kws = <<>> THEN docs_in
    ELSE sort_by_relevance(scored_accepted(docs_in, kws))

(***************************************************************************)
(* _remove_duplicates and _deduplicate_articles                            *)
(***************************************************************************)
RECURSIVE keep_not_in(_, _)
keep_not_in(articles, ids) ==
    IF articles = <<>> THEN <<>>
    ELSE LET init == keep_not_in(SubSeq(articles, 1, Len(articles) - 1), ids)
             article == articles[Len(articles)]
         IN  IF article.news_id \notin ids THEN Append(init, article) ELSE init

remove_duplicates(new_articles, existing_articles) ==
    LET existing_ids == {existing_articles[i].news_id : i \in DOMAIN existing_articles}
    IN  keep_not_in(new_articles, existing_ids)

\* the loop of _deduplicate_articles after the articles of `articles` up to n
RECURSIVE dedup_loop(_, _)
dedup_loop(articles, n) ==
    IF n = 0 THEN [seen_ids |-> {}, deduplicated |-> <<>>]
    ELSE LET before == dedup_loop(articles, n - 1)
             article == articles[n]
             news_id == article.news_id
         IN  IF news_id # "" /\ news_id \notin before.seen_ids
             THEN [seen_ids |-> before.seen_ids \cup {news_id},
                   deduplicated |-> Append(before.deduplicated, article)]
             ELSE before

\* a deduplication without the seen_ids test
MutDedupNoSeenCheck(articles) ==
    keep_not_in(articles, {""})

\* a deduplication that keeps the last occurrence of an id
MutDedupKeepsLast(articles) ==
    Restrict(articles,
             {i \in DOMAIN articles :
                 /\ articles[i].news_id # ""
                 /\ \A j \in (i + 1)..Len(articles) :
                        articles[j].news_id # articles[i].news_id})

deduplicate_articles(articles) ==
    dedup_loop(articles, Len(articles)).deduplicated

(***************************************************************************)
(* State of one request's retrieval (_execute_advanced_search)             *)
(***************************************************************************)
VARIABLES
    pc,            \* where the request is: start, s1..s5, final, fallback, done
    question,      \* the raw question
    date_ok,       \* whether date_to parses as %Y-%m-%d
    max_articles,  \* the target count
    keywords,      \* unique_keywords handed to the cascade
    all_articles,  \* the cascade's accumulated documents
    accepted_by,   \* history: the stage that appended all_articles[i]
    calls,         \* history: the provider calls made, in order
    plain_answers, \* history: the provider's answers to the plain query
    last_result,   \* history: how the latest stage ended
    outcome,       \* the dictionary _execute_advanced_search returns
    returned_by,   \* which return statement produced it
    response_text, \* the narrative handed to _parse_and_validate_ai_response
    references,    \* the reference list handed to it
    parsed,        \* the dictionary it returns
    variant,       \* the orchestrator that runs: batch or streaming
    request,       \* the include_* flags of the ConciergeRequest
    extracted_keywords, \* the orchestrator's extracted_keywords
    related_keywords,   \* its related_keywords
    related_questions,  \* its related_questions, Unbound before an assignment
    today_issues,       \* its today_issues
    requests,           \* the state of each of two interleaved requests
    heap,               \* the document objects the provider has handed out
    events         \* the ConciergeProgress events yielded so far

\* the state of an orchestrator around retrieval and validation
\* what two interleaved requests have: their frames and the shared objects
shared_vars == <<requests, heap>>

stream_vars == <<variant, request, extracted_keywords, related_keywords,
                 related_questions, today_issues, events, shared_vars>>

\* what retrieval never touches
answer_vars == <<response_text, references, parsed, stream_vars>>

vars == <<pc, question, date_ok, max_articles, keywords, all_articles,
          accepted_by, calls, plain_answers, last_result, outcome, returned_by,
          answer_vars>>

Targets == 1..MaxTarget

\* what bigkinds_client.search_news can do: raise, or return documents
ProviderResults ==
    {[ok |-> FALSE, documents |-> <<>>]}
    \cup {[ok |-> TRUE, documents |-> d] : d \in SeqsUpTo(Documents, MaxResp)}

NoMessage == <<>>
NoOutcome ==
    [documents |-> <<>>, total_hits |-> 0, search_failed |-> FALSE,
     error_message |-> NoMessage]

\* no narrative has been validated
NoParsed == [answer |-> <<>>]
\* a local variable that has not been assigned
Unbound == <<"unbound">>

\* no orchestrator runs
\* max_articles of both orchestrators' call of _execute_advanced_search
OrchestratorTarget == 10

\* ConciergeRequest with the defaults of its fields, and with the include_*
\* fields off
DefaultRequest ==
    [include_related_keywords |-> TRUE, include_today_issues |-> TRUE,
     include_related_questions |-> TRUE, max_articles |-> OrchestratorTarget]
PlainRequest ==
    [include_related_keywords |-> FALSE, include_today_issues |-> FALSE,
     include_related_questions |-> FALSE, max_articles |-> OrchestratorTarget]

NoStream ==
    /\ variant = "none"
    /\ request = DefaultRequest
    /\ extracted_keywords = <<>>
    /\ related_keywords = <<>>
    /\ related_questions = Unbound
    /\ today_issues = <<>>
    /\ events = <<>>
    /\ requests = <<>>
    /\ heap = <<>>

NoAnswer ==
    /\ response_text = <<>>
    /\ references = <<>>
    /\ parsed = NoParsed
    /\ NoStream

Init ==
    /\ pc = "start"
    /\ question \in Questions
    /\ date_ok \in BOOLEAN
    /\ max_articles \in Targets
    /\ keywords = <<>>
    /\ all_articles = <<>>
    /\ accepted_by = <<>>
    /\ calls = <<>>
    /\ plain_answers = <<>>
    /\ last_result = "none"
    /\ outcome = NoOutcome
    /\ returned_by = "none"
    /\ NoAnswer

(***************************************************************************)
(* _execute_advanced_search: keyword extraction and expansion              *)
(***************************************************************************)
Start ==
    /\ pc = "start"
    /\ \E processed \in ProcessedKeywordLists :
         \E expanded \in expanded_keywords(processed) :
            keywords' = unique_keywords(expanded)
    /\ pc' = "s1"
    /\ UNCHANGED <<question, date_ok, max_articles, all_articles, accepted_by,
                   calls, plain_answers, last_result, outcome, returned_by>>
    /\ UNCHANGED answer_vars

\* preprocess_query raises: the except branch runs the plain query
StartRaise ==
    /\ pc = "start"
    /\ pc' = "fallback"
    /\ last_result' = "raised"
    /\ UNCHANGED <<question, date_ok, max_articles, keywords, all_articles,
                   accepted_by, calls, plain_answers, outcome, returned_by>>
    /\ UNCHANGED answer_vars

(***************************************************************************)
(* _execute_multi_stage_search                                             *)
(***************************************************************************)
\* an assignment in place of extend
MutExtendReplaces(articles, new_articles, target) ==
    Slice(new_articles, target - Len(articles))

\* an extend that puts the new documents in front
MutExtendPrepends(articles, new_articles, target) ==
    Slice(new_articles, target - Len(articles)) \o articles

\* an extend that appends every new document
MutExtendNoSlice(articles, new_articles, target) == articles \o new_articles

\* all_articles.extend(new_articles[:max_articles-len(all_articles)])
extend(articles, new_articles, target) ==
    articles \o Slice(new_articles, target - Len(articles))

\* the early return of stages 1 to 4
early_return(articles, target) ==
    [documents |-> deduplicate_articles(Slice(articles, target)),
     total_hits |-> Len(articles),
     search_failed |-> FALSE,
     error_message |-> NoMessage]

\* a cascade without the early return
MutQuotaNever(count, target) == FALSE

\* an early return that waits for the count to pass the target
MutQuotaStrict(count, target) == count > target

\* `if len(all_articles) >= max_articles` of stages 1 to 4
quota_reached(count, target) == count >= target

\* a stage error that starts the cascade again
MutStageErrorRestarts(next_pc) == "s1"

\* a stage error that leaves the cascade
MutStageErrorAborts(next_pc) == "fallback"

\* the except branch of a stage: logged, the cascade goes on with next_pc
after_stage_error(next_pc) == next_pc

\* a stage 5 that still runs at the limit
MutStage5GateInclusive(count, kws) == count <= Stage5Limit /\ kws # <<>>

\* the gates of stages 3, 4 and of stage 5
stage34_gate(count, target) == count < target \div 2
stage5_gate(count, kws) == count < Stage5Limit /\ kws # <<>>

\* the query string: " AND ".join / " OR ".join / the keyword itself
Query(op, terms) == [op |-> op, terms |-> terms]

Skip(next_pc) ==
    /\ pc' = next_pc
    /\ last_result' = "skipped"
    /\ UNCHANGED <<all_articles, accepted_by, calls, outcome, returned_by>>

\* strptime(date_to) raises outside the stage's try: the cascade raises
DateRaise ==
    /\ pc' = "fallback"
    /\ last_result' = "raised"
    /\ UNCHANGED <<all_articles, accepted_by, calls, outcome, returned_by>>

\* what a stage does with the provider's answer r to its call
StageStep(r, stage, core_keywords, strict, op, window, size, next_pc) ==
    /\ calls' = Append(calls, [stage |-> stage,
                               query |-> Query(op, core_keywords),
                               window |-> window,
                               return_size |-> size,
                               count |-> Len(all_articles)])
    /\ IF ~r.ok
       THEN /\ pc' = after_stage_error(next_pc)
            /\ last_result' = "error"
            /\ UNCHANGED <<all_articles, accepted_by, outcome, returned_by>>
       ELSE LET articles == r.documents
                filtered_articles ==
                    IF strict THEN filter_relevant_documents(articles, core_keywords)
                    ELSE articles
                new_articles == remove_duplicates(filtered_articles, all_articles)
                grown == extend(all_articles, new_articles, max_articles)
            IN  /\ all_articles' = grown
                /\ accepted_by' =
                       accepted_by \o [i \in 1..(Len(grown) - Len(all_articles)) |-> stage]
                /\ last_result' = "ok"
                /\ IF stage # 5 /\ new_articles # <<>>
                      /\ quota_reached(Len(grown), max_articles)
                   THEN /\ pc' = "done"
                        /\ outcome' = early_return(grown, max_articles)
                        /\ returned_by' = "early"
                   ELSE /\ pc' = next_pc
                        /\ UNCHANGED <<outcome, returned_by>>

\* one stage's provider call and what the stage does with the response
StageCall(stage, core_keywords, strict, op, window, size, next_pc) ==
    \E r \in ProviderResults :
        StageStep(r, stage, core_keywords, strict, op, window, size, next_pc)

Stage1 ==
    /\ pc = "s1"
    /\ IF Len(keywords) >= 2
       THEN StageCall(1, Slice(keywords, AndKeywords), TRUE, "AND", 0, ReturnSize1, "s2")
       ELSE Skip("s2")
    /\ UNCHANGED <<question, date_ok, max_articles, keywords, plain_answers>>
    /\ UNCHANGED answer_vars

Stage2 ==
    /\ pc = "s2"
    /\ IF Len(keywords) >= 2
       THEN StageCall(2, Slice(keywords, OrKeywords), TRUE, "OR", 0, ReturnSize2, "s3")
       ELSE Skip("s3")
    /\ UNCHANGED <<question, date_ok, max_articles, keywords, plain_answers>>
    /\ UNCHANGED answer_vars

Stage3 ==
    /\ pc = "s3"
    /\ IF ~stage34_gate(Len(all_articles), max_articles) THEN Skip("s4")
       ELSE IF ~date_ok THEN DateRaise
       ELSE IF Len(keywords) >= 2
       THEN StageCall(3, Slice(keywords, AndKeywords), TRUE, "AND", ExtendedDays,
                      ReturnSize3, "s4")
       ELSE Skip("s4")
    /\ UNCHANGED <<question, date_ok, max_articles, keywords, plain_answers>>
    /\ UNCHANGED answer_vars

Stage4 ==
    /\ pc = "s4"
    /\ IF ~stage34_gate(Len(all_articles), max_articles) THEN Skip("s5")
       ELSE IF ~date_ok THEN DateRaise
       ELSE IF Len(keywords) >= 1
       THEN StageCall(4, Slice(keywords, OrKeywords), TRUE, "OR", ExtendedDays,
                      ReturnSize4, "s5")
       ELSE Skip("s5")
    /\ UNCHANGED <<question, date_ok, max_articles, keywords, plain_answers>>
    /\ UNCHANGED answer_vars

Stage5 ==
    /\ pc = "s5"
    /\ IF ~stage5_gate(Len(all_articles), keywords) THEN Skip("final")
       ELSE IF ~date_ok THEN DateRaise
       ELSE StageCall(5, Slice(keywords, 1), FALSE, "SINGLE", LastResortDays,
                      ReturnSize5, "final")
    /\ UNCHANGED <<question, date_ok, max_articles, keywords, plain_answers>>
    /\ UNCHANGED answer_vars

\* the final deduplication and return
final_return(articles, target, q) ==
    LET final_articles == deduplicate_articles(articles)
    IN  IF final_articles = <<>>
        THEN [documents |-> <<>>, total_hits |-> 0, search_failed |-> TRUE,
              error_message |-> <<"not_found", q>>]
        ELSE [documents |-> Slice(final_articles, target),
              total_hits |-> Len(final_articles),
              search_failed |-> FALSE,
              error_message |-> NoMessage]

Final ==
    /\ pc = "final"
    /\ outcome' = final_return(all_articles, max_articles, question)
    /\ returned_by' = "final"
    /\ pc' = "done"
    /\ UNCHANGED <<question, date_ok, max_articles, keywords, all_articles,
                   accepted_by, calls, plain_answers, last_result>>
    /\ UNCHANGED answer_vars

(***************************************************************************)
(* _execute_advanced_search: the plain-query fallback                      *)
(***************************************************************************)
\* a fallback that does not test for an empty answer
MutFallbackNoEmptyCheck(r, total_hits, q) ==
    IF ~r.ok
    THEN [documents |-> <<>>, total_hits |-> 0, search_failed |-> TRUE,
          error_message |-> <<"search_error">>]
    ELSE [documents |-> r.documents, total_hits |-> total_hits,
          search_failed |-> FALSE, error_message |-> NoMessage]

\* what the except branch returns for the provider's answer r
fallback_return(r, total_hits, q) ==
    IF ~r.ok
    THEN [documents |-> <<>>, total_hits |-> 0, search_failed |-> TRUE,
          error_message |-> <<"search_error">>]
    ELSE IF r.documents = <<>>
    THEN [documents |-> <<>>, total_hits |-> 0, search_failed |-> TRUE,
          error_message |-> <<"not_found_try_other", q>>]
    ELSE [documents |-> r.documents, total_hits |-> total_hits,
          search_failed |-> FALSE, error_message |-> NoMessage]

Fallback ==
    /\ pc = "fallback"
    /\ \E r \in ProviderResults :
         \E total_hits \in {0, Len(r.documents), Len(r.documents) + 1} :
            /\ calls' = Append(calls, [stage |-> 0,
                                          query |-> Query("PLAIN", <<question>>),
                                          window |-> 0,
                                          return_size |-> max_articles,
                                          count |-> Len(all_articles)])
            /\ plain_answers' = Append(plain_answers, r)
            /\ outcome' = fallback_return(r, total_hits, question)
    /\ returned_by' = "fallback"
    /\ pc' = "done"
    /\ UNCHANGED <<question, date_ok, max_articles, keywords, all_articles,
                   accepted_by, last_result>>
    /\ UNCHANGED answer_vars

Next ==
    \/ Start
    \/ StartRaise
    \/ Stage1
    \/ Stage2
    \/ Stage3
    \/ Stage4
    \/ Stage5
    \/ Final
    \/ Fallback

Spec == Init /\ [][Next]_vars

(***************************************************************************)
(* _deduplicate_articles as a function of its input                        *)
(***************************************************************************)
\* longest list handed to _deduplicate_articles
MaxDedupLen == 4

InitDedup ==
    /\ pc = "dedup_in"
    /\ all_articles \in SeqsUpTo(Documents, MaxDedupLen)
    /\ question = "q1"
    /\ date_ok = TRUE
    /\ max_articles = 1
    /\ keywords = <<>>
    /\ accepted_by = <<>>
    /\ calls = <<>>
    /\ plain_answers = <<>>
    /\ last_result = "none"
    /\ outcome = NoOutcome
    /\ returned_by = "none"
    /\ NoAnswer

\* outcome.documents receives _deduplicate_articles(all_articles)
Dedup ==
    /\ pc = "dedup_in"
    /\ outcome' = [outcome EXCEPT !.documents = deduplicate_articles(all_articles)]
    /\ pc' = "dedup_out"
    /\ UNCHANGED <<question, date_ok, max_articles, keywords, all_articles,
                   accepted_by, calls, plain_answers, last_result, returned_by>>
    /\ UNCHANGED answer_vars

NextDedup == Dedup

SpecDedup == InitDedup /\ [][NextDedup]_vars

(***************************************************************************)
(* Vocabulary of the properties                                            *)
(***************************************************************************)
StagePcs == {"s1", "s2", "s3", "s4", "s5"}

\* the cascade returned (it did not raise)
CascadeReturned == returned_by \in {"early", "final"}

\* the provider calls of the cascade, and the stages that made one
StageCalls == {i \in DOMAIN calls : calls[i].stage >= 1}
CalledStages == {calls[i].stage : i \in StageCalls}

\* the accumulated count when stage k was reached
CountBefore(k) == Cardinality({i \in DOMAIN accepted_by : accepted_by[i] < k})

\* the guard of stage k, as the source writes it
GateHolds(k, count) ==
    CASE k \in {1, 2} -> Len(keywords) >= 2
      [] k = 3 -> count < max_articles \div 2 /\ Len(keywords) >= 2
      [] k = 4 -> count < max_articles \div 2 /\ Len(keywords) >= 1
      [] OTHER -> count < 3 /\ Len(keywords) >= 1

\* no two entries of docs share a news_id
UniqueIds(docs) ==
    \A i, j \in DOMAIN docs : i # j => docs[i].news_id # docs[j].news_id

\* doc holds every keyword of kws, case-insensitively, in title + " " + content
HoldsAll(doc, kws) ==
    \A i \in DOMAIN kws :
        is_substring(lower(kws[i]), lower(doc.title \o <<" ">> \o doc.content))

C2_AccumulatedOnlyGrows ==
    [][Len(all_articles') >= Len(all_articles)]_vars

\* two different stages appended documents and a later stage's call failed
C2_Witness ==
    /\ Len(all_articles) >= 2
    /\ accepted_by[1] # accepted_by[Len(accepted_by)]
    /\ last_result = "error"

(***************************************************************************)
(* C3                                                                      *)
(***************************************************************************)
\* C3 as stated: a stage calls the provider only below target_count, stages
\* 3, 4 and 5 only below target_count/2, stage 5 only below 3.
C3_GatingAsStated ==
    \A i \in StageCalls :
        /\ calls[i].count < max_articles
        /\ calls[i].stage \in {3, 4, 5} => 2 * calls[i].count < max_articles
        /\ calls[i].stage = 5 => calls[i].count < 3

\* C3 amended: a stage calls the provider only below target_count; stages 3
\* and 4 only below target_count/2 (the code tests count < target_count //
\* 2); stage 5 only below 3, and it is not gated on target_count/2.
C3_StageGating ==
    \A i \in StageCalls :
        /\ calls[i].count < max_articles
        /\ calls[i].stage \in {3, 4} => calls[i].count < max_articles \div 2
        /\ calls[i].stage \in {3, 4} => 2 * calls[i].count < max_articles
        /\ calls[i].stage = 5 => calls[i].count < 3

\* stage 5 called at or above half the target, after stage 3 was called
\* for an odd target
C3_Witness ==
    /\ \E i \in StageCalls :
          calls[i].stage = 5 /\ 2 * calls[i].count >= max_articles
    /\ \E i \in StageCalls : calls[i].stage = 3
    /\ max_articles = 3

(***************************************************************************)
(* C4                                                                      *)
(***************************************************************************)
\* C4: every outcome the cascade returns has documents empty if and only if
\* search_failed, and a failed outcome's message embeds the question.
C4_EmptyIffFailed ==
    CascadeReturned =>
        /\ (outcome.documents = <<>>) <=> outcome.search_failed
        /\ outcome.search_failed => question \in Range(outcome.error_message)

(***************************************************************************)
(* C5                                                                      *)
(***************************************************************************)
\* C5 as stated: every documents list retrieval returns (early exit, final
\* return, plain-query fallback) holds no two documents with the same
\* news_id.
C5_ReturnedIdsUnique ==
    pc = "done" => UniqueIds(outcome.documents)

\* C5 amended: every documents list the cascade returns (early exit and
\* final return) holds no two documents with the same news_id, even when
\* one provider response holds a news_id twice; the plain-query fallback
\* returns the provider's documents as they came.
C5_CascadeIdsUnique ==
    /\ CascadeReturned => UniqueIds(outcome.documents)
    /\ (returned_by = "fallback" /\ ~outcome.search_failed)
           => outcome.documents = plain_answers[1].documents

\* an early return whose accumulated list held one news_id twice
C5_Witness ==
    /\ returned_by = "early"
    /\ ~UniqueIds(all_articles)
    /\ outcome.documents # <<>>

(***************************************************************************)
(* C6                                                                      *)
(***************************************************************************)
\* C6: _deduplicate_articles(D) holds no two entries with equal non-empty
\* news_id and is a subsequence of D made of first occurrences.
C6_DedupFirstOccurrences ==
    pc = "dedup_out" =>
        LET D == all_articles
            R == outcome.documents
        IN  /\ \A i, j \in DOMAIN R :
                   (i # j /\ R[i].news_id # "") => R[i].news_id # R[j].news_id
            /\ \E S \in SUBSET (DOMAIN D) :
                   /\ R = Restrict(D, S)
                   /\ \A i \in S : \A j \in 1..(i - 1) : D[j].news_id # D[i].news_id

\* an input that repeats an id with a different document in between
C6_Witness ==
    /\ pc = "dedup_out"
    /\ Len(outcome.documents) >= 2
    /\ \E i, j \in DOMAIN all_articles :
          /\ i + 1 < j
          /\ all_articles[i].news_id = all_articles[j].news_id
          /\ all_articles[i] # all_articles[j]
          /\ all_articles[i].news_id # ""

(***************************************************************************)
(* C7                                                                      *)
(***************************************************************************)
\* C7: documents whose news_id is empty are kept as they are by
\* _deduplicate_articles and never count as duplicates of each other.
C7_EmptyIdsKept ==
    pc = "dedup_out" =>
        Restrict(outcome.documents,
                 {i \in DOMAIN outcome.documents : outcome.documents[i].news_id = ""})
        = Restrict(all_articles,
                   {i \in DOMAIN all_articles : all_articles[i].news_id = ""})

(***************************************************************************)
(* C8                                                                      *)
(***************************************************************************)
\* C8 as stated: every document accepted by stages 1 to 4 holds all of the
\* request's top-3 keywords.
C8_AcceptedHoldTop3 ==
    \A i \in DOMAIN all_articles :
        accepted_by[i] \in 1..4 => HoldsAll(all_articles[i], Slice(keywords, 3))

\* C8 amended: every document accepted by stages 1 to 4 holds all the
\* keywords its stage hands to the strict filter, the top 2 in stages 1 and
\* 3 and the top 3 in stages 2 and 4, as case-insensitive substrings of
\* title + " " + content; the third keyword may be missing from a document
\* of stage 1 or 3.
C8_AcceptedHoldStageKeywords ==
    \A i \in DOMAIN all_articles :
        /\ accepted_by[i] \in {1, 3} => HoldsAll(all_articles[i], Slice(keywords, 2))
        /\ accepted_by[i] \in {2, 4} => HoldsAll(all_articles[i], Slice(keywords, 3))

\* stage 1 accepted a document without the third keyword, and stage 2 one
\* that spells a keyword in another case
C8_Witness ==
    /\ Len(keywords) >= 3
    /\ \E i \in DOMAIN all_articles :
          accepted_by[i] = 1 /\ ~HoldsAll(all_articles[i], Slice(keywords, 3))
    /\ \E i \in DOMAIN all_articles :
          /\ accepted_by[i] = 2
          /\ \E k \in 1..3 :
                ~is_substring(keywords[k],
                              all_articles[i].title \o <<" ">> \o all_articles[i].content)

(***************************************************************************)
(* C9                                                                      *)
(***************************************************************************)
NextStagePc(p) ==
    CASE p = "s1" -> "s2" [] p = "s2" -> "s3" [] p = "s3" -> "s4"
      [] p = "s4" -> "s5" [] OTHER -> "final"

C10_FallbackOnCascadeException ==
    /\ pc = "fallback" => Cardinality({i \in DOMAIN calls : calls[i].stage = 0}) = 0
    /\ returned_by = "fallback" =>
           LET plain == {i \in DOMAIN calls : calls[i].stage = 0}
               answer == plain_answers[1]
           IN  /\ plain = {Len(calls)}
               /\ Len(plain_answers) = 1
               /\ calls[Len(calls)].query = Query("PLAIN", <<question>>)
               /\ IF ~answer.ok \/ answer.documents = <<>>
                  THEN outcome.search_failed /\ outcome.documents = <<>>
                  ELSE ~outcome.search_failed /\ outcome.documents = answer.documents
    /\ CascadeReturned => \A i \in DOMAIN calls : calls[i].stage # 0
    /\ pc # "done" => ENABLED Next
    /\ pc = "done" => returned_by # "none"

\* the cascade raised at stage 3 with documents accumulated and the plain
\* query found documents
C10_Witness ==
    /\ returned_by = "fallback"
    /\ all_articles # <<>>
    /\ ~outcome.search_failed
    /\ outcome.documents # <<>>

(***************************************************************************)
(* C11                                                                     *)
(***************************************************************************)
\* the stages of labels never decrease from one position to the next
StageOrdered(labels) ==
    \A i, j \in DOMAIN labels : i < j => labels[i] <= labels[j]

\* a step of a stage keeps the accumulated documents in front, in their order,
\* and what it adds comes from the stage's own call, no earlier than the rest
AppendsInStageOrder ==
    pc \in StagePcs =>
        /\ Len(all_articles') >= Len(all_articles)
        /\ SubSeq(all_articles', 1, Len(all_articles)) = all_articles
        /\ \A i \in (Len(all_articles) + 1)..Len(all_articles') :
              /\ accepted_by'[i] = calls'[Len(calls')].stage
              /\ \A j \in 1..Len(all_articles) : accepted_by[j] <= accepted_by'[i]

ScenarioKeywords == <<SAMSUNG, HBM>>

\* the orchestrators' target, and the target of three
ScenarioTargets == {3, OrchestratorTarget}

\* the provider's answers to the stage-1 query: three documents, each one
\* accepted by the strict filter
ScenarioStage1Results ==
    {[ok |-> TRUE, documents |-> d] :
        d \in {e \in [1..3 -> Documents] :
                  \A i \in 1..3 : accepts(e[i], ScenarioKeywords)}}

InitScenario ==
    /\ pc = "s1"
    /\ question = "q1"
    /\ date_ok = TRUE
    /\ max_articles \in ScenarioTargets
    /\ keywords = ScenarioKeywords
    /\ all_articles = <<>>
    /\ accepted_by = <<>>
    /\ calls = <<>>
    /\ plain_answers = <<>>
    /\ last_result = "none"
    /\ outcome = NoOutcome
    /\ returned_by = "none"
    /\ NoAnswer

\* stage 1 on an answer of the scenario
ScenarioStage1 ==
    /\ pc = "s1"
    /\ Len(keywords) >= 2
    /\ \E r \in ScenarioStage1Results :
          StageStep(r, 1, Slice(keywords, AndKeywords), TRUE, "AND", 0, ReturnSize1, "s2")
    /\ UNCHANGED <<question, date_ok, max_articles, keywords, plain_answers>>
    /\ UNCHANGED answer_vars

NextScenario ==
    \/ ScenarioStage1
    \/ Stage2
    \/ Stage3
    \/ Stage4
    \/ Stage5
    \/ Final

SpecScenario == InitScenario /\ [][NextScenario]_vars

(***************************************************************************)
(* C12                                                                     *)
(***************************************************************************)
\* C12 as stated: called with the orchestrators' target_count of 10, the
\* cascade halts at stage 1 when the stage-1 query returns exactly three
\* documents that pass the strict filter: total_hits is 3 and stages 2 to 5
\* make no provider call.
C12_ScenarioHaltsAtStage1 ==
    (max_articles = OrchestratorTarget /\ pc # "s1") =>
        /\ pc = "done"
        /\ returned_by = "early"
        /\ outcome.total_hits = 3
        /\ CalledStages = {1}

\* C12 amended: the three documents halt the cascade at stage 1, with
\* total_hits 3 and no provider call by stages 2 to 5, when target_count is
\* 3; with the orchestrators' target_count of 10 stage 1 does not return:
\* stage 2 makes its provider call with three documents accumulated, and
\* stage 5 (which runs below three documents) makes none.
C12_ScenarioHaltsAtTargetOfThree ==
    /\ (max_articles = 3 /\ pc # "s1") =>
          /\ pc = "done"
          /\ returned_by = "early"
          /\ ~outcome.search_failed
          /\ outcome.total_hits = 3
          /\ CalledStages = {1}
    /\ (max_articles = OrchestratorTarget /\ pc # "s1") =>
          /\ Len(all_articles) >= 3
          /\ 5 \notin CalledStages
          /\ pc # "s2" =>
                \E i \in StageCalls : calls[i].stage = 2 /\ calls[i].count = 3

\* with a target of three, stage 1 returned the three documents
C12_Witness ==
    /\ max_articles = 3
    /\ keywords = ScenarioKeywords
    /\ returned_by = "early"
    /\ Len(all_articles) = 3
    /\ CalledStages = {1}

(***************************************************************************)
(* Text of a narrative: character classes of the regular expressions       *)
(***************************************************************************)
\* the Hangul syllables and Latin letters a narrative of the model spells
Letters ==
    {"su", "yo", "ga", "jeung", "haess", "da", "a", "b", "A", "I", "H", "B", "M",
     "h", "m", "i", "sam", "seong", "jeon", "ja", "bo", "tong", "gi", "sa", "e",
     "seo", "hwak", "in", "doe", "ji", "anh", "eun", "nae", "yong", "joe",
     "song", "hap", "ni", "bun", "seok", "jung", "o", "ryu", "bal", "saeng",
     "seup", "gyeol", "gwa", "reul", "ha", "neun", "mun", "je", "kkeut"}
Digits == {"0", "1", "2", "3", "4", "5", "6", "7", "8", "9"}

\* \s, \d, [.!?], [ga-hih a-zA-Z], \w and \S
IsSpace(c) == c \in {" ", "\n"}
IsDigit(c) == c \in Digits
IsPunct(c) == c \in {".", "!", "?"}
IsLetter(c) == c \in Letters
IsWord(c) == IsLetter(c) \/ IsDigit(c) \/ c = "_"

\* the character a pattern asks for in front of the digits
InClass(class, c) ==
    CASE class = "letter" -> IsLetter(c)
      [] class = "letter_punct" -> IsLetter(c) \/ IsPunct(c)
      [] class = "punct" -> IsPunct(c)
      [] class = "word" -> IsWord(c)
      [] OTHER -> ~IsSpace(c)

\* str.strip()
strip(t) ==
    LET keep == {i \in DOMAIN t : ~IsSpace(t[i])}
    IN  IF keep = {} THEN <<>>
        ELSE SubSeq(t, CHOOSE i \in keep : \A j \in keep : i <= j,
                       CHOOSE i \in keep : \A j \in keep : j <= i)

\* str(n) and int(s) for decimal numerals
DigitOf(n) ==
    CASE n = 0 -> "0" [] n = 1 -> "1" [] n = 2 -> "2" [] n = 3 -> "3"
      [] n = 4 -> "4" [] n = 5 -> "5" [] n = 6 -> "6" [] n = 7 -> "7"
      [] n = 8 -> "8" [] OTHER -> "9"

ValueOf(c) == CHOOSE n \in 0..9 : DigitOf(n) = c

RECURSIVE str(_)
str(n) == IF n < 10 THEN <<DigitOf(n)>> ELSE Append(str(n \div 10), DigitOf(n % 10))

RECURSIVE int(_)
int(s) ==
    IF s = <<>> THEN 0
    ELSE 10 * int(SubSeq(s, 1, Len(s) - 1)) + ValueOf(s[Len(s)])

\* str.join
RECURSIVE join(_, _)
join(sep, parts) ==
    IF parts = <<>> THEN <<>>
    ELSE IF Len(parts) = 1 THEN parts[1]
    ELSE parts[1] \o sep \o join(sep, Tail(parts))

\* the end of the run of digits that starts at position i
RunEnd(t, i) ==
    CHOOSE e \in i..Len(t) :
        /\ \A k \in i..e : IsDigit(t[k])
        /\ e = Len(t) \/ ~IsDigit(t[e + 1])

\* $ : the end of the text, or the newline that ends it
AtEnd(t, i) == i = Len(t) + 1 \/ (i = Len(t) /\ t[i] = "\n")

\* the lookaheads (?=\s|$) and (?=\s|$|[.!?]) at position i
After(t, i, punct_ok) ==
    \/ AtEnd(t, i)
    \/ i <= Len(t) /\ (IsSpace(t[i]) \/ (punct_ok /\ IsPunct(t[i])))

\* (class)(\d+)(lookahead) matches with its first character at p: \d+ has to
\* take the whole run, a shorter one is followed by a digit
MarkerAt(class, punct_ok, t, p) ==
    /\ p < Len(t)
    /\ InClass(class, t[p])
    /\ IsDigit(t[p + 1])
    /\ After(t, RunEnd(t, p + 1) + 1, punct_ok)

\* re.finditer: the matches from position `from` on, leftmost first and not
\* overlapping, as [first, last] of the whole match
RECURSIVE finditer(_, _, _, _)
finditer(class, punct_ok, t, from) ==
    LET starts == {p \in from..Len(t) : MarkerAt(class, punct_ok, t, p)}
    IN  IF starts = {} THEN <<>>
        ELSE LET p == CHOOSE q \in starts : \A r \in starts : q <= r
                 e == RunEnd(t, p + 1)
             IN  <<[first |-> p, last |-> e]>> \o finditer(class, punct_ok, t, e + 1)

\* match.group(2) of every match
groups2(class, punct_ok, t) ==
    LET ms == finditer(class, punct_ok, t, 1)
    IN  [k \in DOMAIN ms |-> SubSeq(t, ms[k].first + 1, ms[k].last)]

\* re.sub(pattern, r'\1', t): every match keeps its first character only
RECURSIVE sub_group1_from(_, _, _, _)
sub_group1_from(class, punct_ok, t, from) ==
    LET ms == finditer(class, punct_ok, t, from)
    IN  IF ms = <<>> THEN SubSeq(t, from, Len(t))
        ELSE SubSeq(t, from, ms[1].first)
             \o sub_group1_from(class, punct_ok, t, ms[1].last + 1)

sub_group1(class, punct_ok, t) == sub_group1_from(class, punct_ok, t, 1)

(***************************************************************************)
(* _parse_and_validate_ai_response and _create_fallback_response           *)
(***************************************************************************)
\* a sentence takes a citation when it is longer than this
MinCitedLen == 5
\* the citation numbers cycle through at most this many references
MaxCycle == 10
\* the cycle, and the largest accepted number, when there are no references
NoRefCycle == 3
NoRefMaxCitations == 10
\* a sentence makes a key point when it is longer than this; at most 4
MinKeyPointLen == 30
MaxKeyPoints == 4

\* the fixed texts (each one non-empty)
PLACEHOLDER_ANSWER ==
    <<"bun", "seok", " ", "gyeol", "gwa", "reul", " ", "saeng", "seong", "ha", "neun",
      " ", "jung", " ", "mun", "je", "ga", " ", "bal", "saeng", "haess", "seup", "ni",
      "da", ".">>
FALLBACK_KEY_POINTS == <<"analysis_done", "see_references">>
DEFAULT_KEY_POINTS == <<"check_analysis">>

\* existing_citation_patterns[0]: \d+(?=\s*[.!?]?\s*$)
trailing_digits(t) ==
    \E e \in DOMAIN t :
        /\ IsDigit(t[e])
        /\ \A k \in (e + 1)..Len(t) : IsSpace(t[k]) \/ IsPunct(t[k])
        /\ Cardinality({k \in (e + 1)..Len(t) : IsPunct(t[k])}) <= 1

\* a detection that looks at the end of the narrative only
MutDetectsTrailingOnly(t) == trailing_digits(t)

\* re.search of the four existing_citation_patterns
has_existing_citations(t) ==
    \/ trailing_digits(t)
    \/ \E p \in DOMAIN t : MarkerAt("letter", TRUE, t, p)
    \/ \E p \in DOMAIN t : MarkerAt("punct", FALSE, t, p)
    \/ \E p \in DOMAIN t : MarkerAt("nonspace", FALSE, t, p)

\* re.split(r'(?<=[.!?])\s+', t): cut at the whitespace that follows [.!?]
RECURSIVE split_sentences(_)
split_sentences(t) ==
    LET cuts == {i \in 2..Len(t) : IsSpace(t[i]) /\ IsPunct(t[i - 1])}
    IN  IF cuts = {} THEN <<t>>
        ELSE LET i == CHOOSE c \in cuts : \A d \in cuts : c <= d
                 j == CHOOSE e \in i..Len(t) :
                         /\ \A k \in i..e : IsSpace(t[k])
                         /\ e = Len(t) \/ ~IsSpace(t[e + 1])
             IN  <<SubSeq(t, 1, i - 1)>> \o split_sentences(SubSeq(t, j + 1, Len(t)))

\* citation_num of the sentence at index i (from 0)
citation_num(i, n_references) ==
    LET max_ref == IF n_references > 0 THEN Min(n_references, MaxCycle) ELSE NoRefCycle
    IN  (i % max_ref) + 1

\* a citation put behind the sentence, after its punctuation
MutCiteAfterSentence(sentence, num) == sentence \o str(num)

\* new_sentence: the number goes before the closing [.!?], or with a "."
cite_sentence(sentence, num) ==
    IF IsPunct(sentence[Len(sentence)])
    THEN SubSeq(sentence, 1, Len(sentence) - 1) \o str(num) \o <<sentence[Len(sentence)]>>
    ELSE sentence \o str(num) \o <<".">>

\* new_sentences after the sentences up to n of enumerate(sentences)
RECURSIVE new_sentences(_, _, _)
new_sentences(sentences, n, n_references) ==
    IF n = 0 THEN <<>>
    ELSE LET before == new_sentences(sentences, n - 1, n_references)
             sentence == strip(sentences[n])
         IN  IF sentence # <<>> /\ Len(sentence) > MinCitedLen
             THEN Append(before, cite_sentence(sentence, citation_num(n - 1, n_references)))
             ELSE IF sentence # <<>> THEN Append(before, sentence)
             ELSE before

\* the answer after the synthesis step
synthesize(answer, n_references) ==
    LET sentences == split_sentences(answer)
        new == new_sentences(sentences, Len(sentences), n_references)
    IN  IF new # <<>> THEN join(<<" ">>, new) ELSE answer

\* a range test that accepts every positive number
MutInRangeNoUpperBound(num, n_references) == 1 <= num

\* 1 <= num <= max_citations
in_range(num, n_references) ==
    LET max_citations == IF n_references > 0 THEN n_references ELSE NoRefMaxCitations
    IN  1 <= num /\ num <= max_citations

\* the numbers of one list of groups that are in range, as str(num)
RECURSIVE accepted_numbers(_, _)
accepted_numbers(groups, n_references) ==
    IF groups = <<>> THEN <<>>
    ELSE LET num == int(groups[1])
             rest == accepted_numbers(Tail(groups), n_references)
         IN  IF in_range(num, n_references) THEN <<str(num)>> \o rest ELSE rest

\* an extraction that keeps the repeats
MutExtractKeepsRepeats(answer, n_references) ==
    accepted_numbers(groups2("letter_punct", TRUE, answer), n_references)
    \o accepted_numbers(groups2("word", FALSE, answer), n_references)
    \o accepted_numbers(groups2("nonspace", TRUE, answer), n_references)

\* citation_numbers after the three citation_patterns and the removal of
\* repeats
extract_citation_numbers(answer, n_references) ==
    unique_keywords(
        accepted_numbers(groups2("letter_punct", TRUE, answer), n_references)
        \o accepted_numbers(groups2("word", FALSE, answer), n_references)
        \o accepted_numbers(groups2("nonspace", TRUE, answer), n_references))

\* a collection that does not fall back to reference 1
MutNoForcedCitation(refs) == <<>>

\* the citation forced when none was collected
forced_citation(refs) ==
    IF refs # <<>> THEN <<[citation_number |-> 1, title |-> refs[1].title]>> ELSE <<>>

\* citations_used: one record per collected number that indexes a reference
RECURSIVE collect_citations(_, _)
collect_citations(numbers, refs) ==
    IF numbers = <<>> THEN <<>>
    ELSE LET ref_index == int(numbers[1]) - 1
             rest == collect_citations(Tail(numbers), refs)
         IN  IF refs # <<>> /\ 0 <= ref_index /\ ref_index < Len(refs)
             THEN <<[citation_number |-> int(numbers[1]),
                     title |-> refs[ref_index + 1].title]>> \o rest
             ELSE rest

\* re.split(r'[.!?]\s+', t): cut at [.!?] followed by whitespace
RECURSIVE split_key_sentences(_)
split_key_sentences(t) ==
    LET cuts == {i \in 1..(Len(t) - 1) : IsPunct(t[i]) /\ IsSpace(t[i + 1])}
    IN  IF cuts = {} THEN <<t>>
        ELSE LET i == CHOOSE c \in cuts : \A d \in cuts : c <= d
                 j == CHOOSE e \in (i + 1)..Len(t) :
                         /\ \A k \in (i + 1)..e : IsSpace(t[k])
                         /\ e = Len(t) \/ ~IsSpace(t[e + 1])
             IN  <<SubSeq(t, 1, i - 1)>> \o split_key_sentences(SubSeq(t, j + 1, Len(t)))

\* a loop that takes every sentence that is long enough
RECURSIVE MutKeyPointsNoCap(_, _)
MutKeyPointsNoCap(sentences, n) ==
    IF n = 0 THEN <<>>
    ELSE LET before == MutKeyPointsNoCap(sentences, n - 1)
             sentence == strip(sentences[n])
             clean_sentence == strip(sub_group1("nonspace", FALSE, sentence))
         IN  IF /\ Len(sentence) > MinKeyPointLen
                /\ Len(clean_sentence) > MinKeyPointLen
             THEN Append(before, clean_sentence)
             ELSE before

\* a loop that tests the sentence before the citation numbers are removed
RECURSIVE MutKeyPointsUnstripped(_, _)
MutKeyPointsUnstripped(sentences, n) ==
    IF n = 0 THEN <<>>
    ELSE LET before == MutKeyPointsUnstripped(sentences, n - 1)
             sentence == strip(sentences[n])
             clean_sentence == strip(sub_group1("nonspace", FALSE, sentence))
         IN  IF /\ Len(sentence) > MinKeyPointLen
                /\ Len(before) < MaxKeyPoints
             THEN Append(before, clean_sentence)
             ELSE before

\* the loop that fills key_points, after the sentences up to n
RECURSIVE key_points_loop(_, _)
key_points_loop(sentences, n) ==
    IF n = 0 THEN <<>>
    ELSE LET before == key_points_loop(sentences, n - 1)
             sentence == strip(sentences[n])
             clean_sentence == strip(sub_group1("nonspace", FALSE, sentence))
         IN  IF /\ Len(sentence) > MinKeyPointLen
                /\ Len(before) < MaxKeyPoints
                /\ Len(clean_sentence) > MinKeyPointLen
             THEN Append(before, clean_sentence)
             ELSE before

key_points_of(answer) ==
    LET sentences == split_key_sentences(answer)
        found == key_points_loop(sentences, Len(sentences))
    IN  IF found = <<>> THEN DEFAULT_KEY_POINTS ELSE found

\* _create_fallback_response
create_fallback_response(text, refs) ==
    LET clean_response == IF text # <<>> THEN strip(text) ELSE PLACEHOLDER_ANSWER
        citations_used == forced_citation(refs)
    IN  [answer |-> clean_response,
         key_points |-> FALLBACK_KEY_POINTS,
         citations_used |-> citations_used,
         citation_numbers |-> <<>>,
         total_citations |-> Len(citations_used),
         articles_used_count |-> Len(citations_used),
         fallback |-> TRUE]

\* _parse_and_validate_ai_response; citation_numbers is its local list
parse_and_validate_ai_response(text, refs) ==
    LET stripped == strip(text)
        answer == IF has_existing_citations(stripped) THEN stripped
                  ELSE synthesize(stripped, Len(refs))
        extracted == extract_citation_numbers(answer, Len(refs))
        citation_numbers == IF extracted = <<>> /\ refs # <<>> THEN <<str(1)>>
                            ELSE extracted
        collected == collect_citations(citation_numbers, refs)
        citations_used == IF collected = <<>> THEN forced_citation(refs) ELSE collected
    IN  IF stripped = <<>> THEN create_fallback_response(text, refs)
        ELSE [answer |-> answer,
              key_points |-> key_points_of(answer),
              citations_used |-> citations_used,
              citation_numbers |-> citation_numbers,
              total_citations |-> Len(citation_numbers),
              articles_used_count |-> Len(citations_used),
              fallback |-> FALSE]

(***************************************************************************)
(* _parse_and_validate_ai_response as a function of its inputs             *)
(***************************************************************************)
\* most sentences put together into one narrative
MaxPieces == 2
\* longest reference list (next to the one longer than the cycle)
MaxRefs == 3

S_DEMAND == <<"su", "yo", "ga", " ", "jeung", "ga", "haess", "da", ".">>
S_SHORT == <<"ga", "da", ".">>
S_NOPUNCT == <<"su", "yo", "ga", "jeung", "ga", "da">>
S_CITED1 == <<"su", "yo", "ga", "jeung", "ga", "da", "1", ".">>
S_CITED2 == <<"su", "yo", "ga", "jeung", "ga", "da", "2", "?">>
S_CITED9 == <<"su", "yo", "ga", "jeung", "ga", "da", "9", ".">>
S_NUMBER == <<"1", "2">>
S_SPACE == <<" ">>
S_DIGIT_INSIDE == <<"2", "a", "b", " ", "su", "yo", "ga", "!">>
S_LONG == [i \in 1..(MinKeyPointLen + 2) |->
              IF i = MinKeyPointLen + 2 THEN "." ELSE IF i % 2 = 1 THEN "ga" ELSE "da"]

Pieces ==
    {S_DEMAND, S_SHORT, S_NOPUNCT, S_CITED1, S_CITED2, S_CITED9, S_NUMBER,
     S_SPACE, S_DIGIT_INSIDE, S_LONG}

\* more references than the cycle has numbers, and a narrative with more
\* sentences than that
ManyRefs == MaxCycle + 1
S_MANY == join(<<" ">>, [i \in 1..(ManyRefs + 1) |-> S_DEMAND])

\* sentences that end in a character that is no letter, alone and followed
\* by a short sentence
S_PAREN == <<"su", "yo", "ga", " ", "jeung", "ga", " ", "(", "H", "B", "M", ")", ".">>
S_QUOTE == <<"'", "su", "yo", "ga", " ", "jeung", "ga", "'", ".">>
S_END == <<"kkeut", ".">>
\* a citation number behind ')' and, in the next sentence, one behind a letter
S_PAREN_CITED2 ==
    <<"su", "yo", "ga", " ", "(", "H", "B", "M", ")", "2", ".", " ">> \o S_CITED1
ClosedSentences ==
    {S_PAREN, S_QUOTE, S_PAREN \o <<" ">> \o S_END, S_QUOTE \o <<" ">> \o S_END,
     S_PAREN \o <<" ">> \o S_DEMAND, S_PAREN_CITED2}

Narratives ==
    {join(<<" ">>, ps) : ps \in SeqsUpTo(Pieces, MaxPieces)} \cup {S_MANY}
    \cup ClosedSentences

\* ArticleReference objects: ref_id i is reference number i
ReferenceList(n) == [i \in 1..n |-> [ref_id |-> i, title |-> <<"title", i>>]]
ReferenceLists == {ReferenceList(n) : n \in 0..MaxRefs} \cup {ReferenceList(ManyRefs)}

InitValidate ==
    /\ pc = "validate_in"
    /\ response_text \in Narratives
    /\ references \in ReferenceLists
    /\ parsed = NoParsed
    /\ NoStream
    /\ question = "q1"
    /\ date_ok = TRUE
    /\ max_articles = 1
    /\ keywords = <<>>
    /\ all_articles = <<>>
    /\ accepted_by = <<>>
    /\ calls = <<>>
    /\ plain_answers = <<>>
    /\ last_result = "none"
    /\ outcome = NoOutcome
    /\ returned_by = "none"

\* parsed receives _parse_and_validate_ai_response(response_text, references)
Validate ==
    /\ pc = "validate_in"
    /\ parsed' = parse_and_validate_ai_response(response_text, references)
    /\ pc' = "validate_out"
    /\ UNCHANGED <<question, date_ok, max_articles, keywords, all_articles,
                   accepted_by, calls, plain_answers, last_result, outcome,
                   returned_by, response_text, references, stream_vars>>

NextValidate == Validate

SpecValidate == InitValidate /\ [][NextValidate]_vars

(***************************************************************************)
(* C13                                                                     *)
(***************************************************************************)
\* _parse_and_validate_ai_response has returned
Validated == pc = "validate_out"

\* the citation numbers of the records of citations_used
UsedNumbers ==
    [i \in DOMAIN parsed.citations_used |-> parsed.citations_used[i].citation_number]

\* C13: with a non-empty reference list every collected citation number and
\* every citation_number of citations_used lies in 1..len(references), and
\* each record of citations_used is the reference of its number: numbers
\* outside the range are discarded, none is made up beyond the list.
C13_CitationsWithinReferences ==
    (Validated /\ references # <<>>) =>
        /\ \A i \in DOMAIN parsed.citation_numbers :
              int(parsed.citation_numbers[i]) \in 1..Len(references)
        /\ \A i \in DOMAIN parsed.citations_used :
              LET number == parsed.citations_used[i].citation_number
              IN  /\ number \in 1..Len(references)
                  /\ parsed.citations_used[i].title = references[number].title

\* a narrative citing 2 and 9 was validated against two references: 2 was
\* collected and 9 discarded
C13_Witness ==
    /\ Validated
    /\ response_text = S_CITED2 \o <<" ">> \o S_CITED9
    /\ Len(references) = 2
    /\ parsed.citation_numbers = <<str(2)>>
    /\ UsedNumbers = <<2>>

(***************************************************************************)
(* C14                                                                     *)
(***************************************************************************)
\* t[first..last] is a run of digits with a character of t in front of it
DigitsAfterChar(t, first, last) ==
    /\ 1 < first
    /\ first <= last
    /\ last <= Len(t)
    /\ \A k \in first..last : IsDigit(t[k])

\* some detection pattern matches t: digits that close the narrative (a
\* [.!?] and whitespace may follow), digits after a letter in front of
\* whitespace, [.!?] or the end, or digits after any non-space character in
\* front of whitespace or the end
MarkerPresent(t) ==
    \/ \E e \in DOMAIN t :
          /\ IsDigit(t[e])
          /\ \A k \in (e + 1)..Len(t) : IsSpace(t[k]) \/ IsPunct(t[k])
          /\ \A k, l \in (e + 1)..Len(t) : (IsPunct(t[k]) /\ IsPunct(t[l])) => k = l
    \/ \E first, last \in DOMAIN t :
          /\ DigitsAfterChar(t, first, last)
          /\ \/ /\ IsLetter(t[first - 1])
                /\ last = Len(t) \/ IsSpace(t[last + 1]) \/ IsPunct(t[last + 1])
             \/ /\ ~IsSpace(t[first - 1])
                /\ last = Len(t) \/ IsSpace(t[last + 1])

\* C14: when a detection pattern matches the narrative, no marker is
\* synthesized: the returned answer is the stripped narrative.
C14_NoSynthesisWhenCited ==
    (Validated /\ MarkerPresent(strip(response_text))) =>
        parsed.answer = strip(response_text)

\* a narrative whose first sentence cites 1 and whose second sentence is long
\* and uncited came back unchanged
C14_Witness ==
    /\ Validated
    /\ response_text = S_CITED1 \o <<" ">> \o S_DEMAND
    /\ MarkerPresent(response_text)
    /\ ~trailing_digits(response_text)
    /\ parsed.answer = response_text

(***************************************************************************)
(* C15                                                                     *)
(***************************************************************************)
\* C15: with a non-empty reference list citations_used has at least one
\* record, whatever the narrative: empty, without a detected citation, or
\* with out-of-range numbers only.
C15_AtLeastOneCitation ==
    (Validated /\ references # <<>>) => Len(parsed.citations_used) >= 1

\* the only number of the narrative, 9, is out of range for two references:
\* reference 1 is cited
C15_Witness ==
    /\ Validated
    /\ response_text = S_CITED9
    /\ Len(references) = 2
    /\ UsedNumbers = <<1>>

(***************************************************************************)
(* C16                                                                     *)
(***************************************************************************)
\* the length of the cycle of citation numbers
CycleLength == IF references # <<>> THEN Min(Len(references), 10) ELSE 3

\* sentence with num in front of its closing [.!?], or with num and "."
WithCitation(sentence, num) ==
    LET last == sentence[Len(sentence)]
    IN  IF last \in {".", "!", "?"}
        THEN SubSeq(sentence, 1, Len(sentence) - 1) \o str(num) \o <<last>>
        ELSE sentence \o str(num) \o <<".">>

\* the sentences of the narrative, those longer than 5 characters cited with
\* the number number_of[k] and the others as they are, joined by one space
CitedNarrative(sentences, number_of) ==
    join(<<" ">>, [k \in DOMAIN sentences |->
                      IF Len(sentences[k]) > 5
                      THEN WithCitation(sentences[k], number_of[k])
                      ELSE sentences[k]])

\* numbers that cycle over the cited sentences: 1, 2, ..., m, 1, ...
NumbersByCitedSentence(sentences) ==
    [k \in DOMAIN sentences |->
        (Cardinality({j \in 1..(k - 1) : Len(sentences[j]) > 5}) % CycleLength) + 1]

\* numbers that cycle over all sentences, the short ones counted
NumbersByPosition(sentences) ==
    [k \in DOMAIN sentences |-> ((k - 1) % CycleLength) + 1]

\* a non-empty narrative in which no detection pattern matches
Uncited == strip(response_text) # <<>> /\ ~MarkerPresent(strip(response_text))

\* C16 as stated: on a narrative without a detected marker every sentence
\* longer than 5 characters gets one citation number in front of its closing
\* punctuation (number and period when it has none), shorter sentences stay
\* as they are, and the numbers of successive cited sentences cycle
\* 1, 2, ..., m, 1, ... with m = min(len(references), 10), or 3 without
\* references; "su yo ga jeung ga haess da." with two references becomes
\* "su yo ga jeung ga haess da1." and citations_used is reference 1.
C16_CycleOverCitedSentences ==
    /\ (Validated /\ Uncited) =>
          LET sentences == split_sentences(strip(response_text))
          IN  parsed.answer = CitedNarrative(sentences, NumbersByCitedSentence(sentences))
    /\ (Validated /\ response_text = S_DEMAND /\ Len(references) = 2) =>
          UsedNumbers = <<1>>

\* C16 amended: as stated, except that the number of a cited sentence is
\* (i mod m) + 1 for its position i (from 0) among all sentences of the
\* narrative, the short ones counted: the cited sentences carry 1, 2, ...,
\* m, 1, ... only when no short sentence stands before or between them.
C16_CycleOverAllSentences ==
    /\ (Validated /\ Uncited) =>
          LET sentences == split_sentences(strip(response_text))
          IN  parsed.answer = CitedNarrative(sentences, NumbersByPosition(sentences))
    /\ (Validated /\ response_text = S_DEMAND /\ Len(references) = 2) =>
          UsedNumbers = <<1>>

\* a short sentence stands before a long one: with two references the long
\* sentence, the first one cited, carries 2
C16_Witness ==
    /\ Validated
    /\ Uncited
    /\ response_text = S_SHORT \o <<" ">> \o S_DEMAND
    /\ Len(references) = 2
    /\ parsed.answer =
          S_SHORT \o <<" ">> \o SubSeq(S_DEMAND, 1, Len(S_DEMAND) - 1) \o <<"2", ".">>

(***************************************************************************)
(* C17                                                                     *)
(***************************************************************************)
\* C17: for every narrative and every reference list the result has a
\* non-empty answer and non-empty key_points; a narrative that is empty
\* (nothing but whitespace) yields the fallback response: the placeholder
\* answer, the two generic key points and, when a reference exists, a single
\* citation of reference 1.
C17_NonEmptyResult ==
    Validated =>
        /\ parsed.answer # <<>>
        /\ parsed.key_points # <<>>
        /\ strip(response_text) = <<>> =>
              /\ parsed.answer = PLACEHOLDER_ANSWER
              /\ parsed.key_points = FALLBACK_KEY_POINTS
              /\ UsedNumbers = IF references # <<>> THEN <<1>> ELSE <<>>

(***************************************************************************)
(* The helpers of the orchestrators                                        *)
(***************************************************************************)
\* articles[:10], references[:10] and verified_articles[:10]
TopArticles == 10

\* the text of the question (it names HBM and SAMSUNG)
question_text == [q \in Questions |-> HBM \o <<" ">> \o SAMSUNG]

\* tech_terms (the entries the model's alphabet spells)
tech_terms == <<lower(HBM), lower(AI), lower(GPU)>>

\* _generate_default_related_keywords for a one-word keyword that
\* keyword_mappings has no key for: the word, if it has two characters or more
default_related_keywords(keyword) ==
    LET keyword_lower == lower(keyword)
    IN  IF Len(keyword_lower) >= 2 /\ \A i \in DOMAIN keyword_lower : ~IsSpace(keyword_lower[i])
        THEN <<keyword_lower>>
        ELSE <<>>

\* what bigkinds_client.get_related_keywords can return: raise, or a list
RelatedKeywordResults ==
    {[ok |-> FALSE, keywords |-> <<>>], [ok |-> TRUE, keywords |-> <<>>],
     [ok |-> TRUE, keywords |-> <<AI, GPU>>]}

\* _get_related_keywords: the provider's list, the default list when the
\* provider fails or has none
get_related_keywords(keyword, r) ==
    IF r.ok /\ r.keywords # <<>> THEN r.keywords ELSE default_related_keywords(keyword)

\* questions_generator.generate_related_questions: a list of questions
RelatedQuestionLists == {<<>>, <<"related_question_1">>}

\* _create_article_references: reference i is built from article i;
\* relevance_score is _score / 100.0
create_article_references(articles) ==
    [i \in DOMAIN articles |->
        [ref_id |-> i, title |-> articles[i].title,
         relevance_score |-> articles[i].score]]

\* ArticleReference accepts relevance_score in [0, 1]
references_valid(articles) ==
    \A i \in DOMAIN articles : 0 <= articles[i].score /\ articles[i].score <= 100

\* question_keywords of _verify_article_relevance
question_keywords(q, kws) ==
    LET question_lower == lower(question_text[q])
    IN  SelectSeq(tech_terms, LAMBDA term : is_substring(term, question_lower))
        \o [i \in DOMAIN Slice(kws, 3) |-> lower(kws[i])]

\* the articles that hold half of the question keywords or more
RECURSIVE verified_loop(_, _)
verified_loop(articles, qkws) ==
    IF articles = <<>> THEN <<>>
    ELSE LET init == verified_loop(SubSeq(articles, 1, Len(articles) - 1), qkws)
             article == articles[Len(articles)]
             matches == Cardinality({k \in DOMAIN qkws :
                                        is_substring(qkws[k], full_text(article))})
         IN  IF 2 * matches >= Len(qkws) THEN Append(init, article) ELSE init

verify_article_relevance(articles, q, kws) ==
    Slice(verified_loop(articles, question_keywords(q, kws)), TopArticles)

\* str.split('\n') and '\n'.join
RECURSIVE split_lines(_)
split_lines(t) ==
    LET breaks == {i \in DOMAIN t : t[i] = "\n"}
    IN  IF breaks = {} THEN <<t>>
        ELSE LET i == CHOOSE b \in breaks : \A c \in breaks : b <= c
             IN  <<SubSeq(t, 1, i - 1)>> \o split_lines(SubSeq(t, i + 1, Len(t)))

\* suspicious_phrases (the entry the model's alphabet spells) and the note
\* put behind a line that holds one
suspicious_phrases == {<<"bo", "tong">>}
NOT_CONFIRMED ==
    <<" ", "(", "gi", "sa", "e", "seo", " ", "hwak", "in", "doe", "ji", " ",
      "anh", "eun", " ", "nae", "yong", ")">>

\* _verify_ai_response
verify_ai_response(response) ==
    LET response_lines == split_lines(response)
        verified_lines ==
            [k \in DOMAIN response_lines |->
                LET line == response_lines[k]
                IN  IF strip(line) # <<>>
                       /\ \E phrase \in suspicious_phrases : is_substring(phrase, lower(line))
                    THEN line \o NOT_CONFIRMED
                    ELSE line]
    IN  join(<<"\n">>, verified_lines)

\* the dictionaries _generate_ai_response_with_citations returns without
\* a narrative
AiDict(answer, key_points) ==
    [answer |-> answer, key_points |-> key_points, citations_used |-> <<>>,
     citation_numbers |-> <<>>, total_citations |-> 0, articles_used_count |-> 0,
     fallback |-> FALSE]

NO_RELEVANT_ARTICLES == AiDict(<<"no_reliable_articles">>, <<"no_recent_articles">>)
AI_FAILED == AiDict(<<"ai_analysis_failed">>, <<"analysis_incomplete", "processing_error">>)

\* what openai.chat.completions.create gives the batch orchestrator: raise,
\* or a narrative
S_SUSPICIOUS == <<"bo", "tong", " ", "su", "yo", "ga", " ", "jeung", "ga", ".">>
CompletionResults ==
    {[ok |-> FALSE, text |-> <<>>]}
    \cup {[ok |-> TRUE, text |-> t] : t \in {<<>>, S_DEMAND, S_CITED1, S_SUSPICIOUS}}

\* the local name response_instruction of
\* _generate_ai_response_with_citations: user_prompt reads it and no
\* statement of the function assigns it
response_instruction == Unbound

\* how a call ends: with a value (and the narrative the provider gave, if it
\* was asked), or with an exception
Returned(value, text) == [raised |-> FALSE, value |-> value, text |-> text]
Raised == [raised |-> TRUE, value |-> AiDict(<<>>, <<>>), text |-> <<>>]

\* _generate_ai_response_with_citations for the provider's answer r; the
\* orchestrator passes related_keywords as keywords
generate_ai_response_with_citations(q, articles, refs, kws, r) ==
    LET top_articles == Slice(articles, TopArticles)
        top_references == Slice(refs, TopArticles)
        verified_articles == verify_article_relevance(top_articles, q, kws)
    IN  IF verified_articles = <<>> THEN Returned(NO_RELEVANT_ARTICLES, <<>>)
        ELSE IF response_instruction = Unbound THEN Raised
        ELSE IF ~r.ok THEN Returned(AI_FAILED, <<>>)
        ELSE Returned(parse_and_validate_ai_response(verify_ai_response(r.text),
                                                     top_references), r.text)

\* the chunk _generate_ai_streaming_response yields when the provider fails
AI_ERROR_TEXT ==
    <<"joe", "song", "hap", "ni", "da", ".", " ", "A", "I", " ", "bun", "seok",
      " ", "jung", " ", "o", "ryu", "ga", " ", "bal", "saeng", "haess", "seup",
      "ni", "da", ":", " ", "e">>

\* the chunks of _generate_ai_streaming_response: those the provider sent,
\* and the error text when it failed
streamed_chunks(chunks, failed) ==
    IF failed THEN Append(chunks, AI_ERROR_TEXT) ELSE chunks

\* a response that is overwritten by each chunk
MutLastChunkOnly(chunks, n) == IF n = 0 THEN <<>> ELSE chunks[n]

\* streaming_response after the chunks up to n
RECURSIVE streaming_response(_, _)
streaming_response(chunks, n) ==
    IF n = 0 THEN <<>> ELSE streaming_response(chunks, n - 1) \o chunks[n]

(***************************************************************************)
(* The orchestrators: generate_concierge_response_stream (batch) and       *)
(* generate_concierge_response_stream_with_ai_streaming (streaming)        *)
(***************************************************************************)
\* the articles and the fragments of one modelled request
MaxArticles == 2
MaxChunks == 2

\* progress values of the events
PROGRESS ==
    [question_analysis |-> 5, keywords_extracted |-> 15, search_strategy |-> 25,
     search_strategy_ready |-> 35, news_search |-> 45, no_results |-> 100,
     search_completed |-> 55, parallel_collection |-> 65, related_keywords |-> 65,
     today_issues |-> 70, related_questions |-> 72, ai_analysis |-> 75,
     response_generation |-> 90, completed |-> 100, error |-> 0]

\* progress of an ai_streaming event
StreamingBase == 75
StreamingStep == 10
StreamingCap == 90
\* a progress without the min(..., 90)
MutProgressNoCap(streaming_content) ==
    StreamingBase + (Len(streaming_content) \div StreamingStep)

streaming_progress(streaming_content) ==
    LET p == StreamingBase + (Len(streaming_content) \div StreamingStep)
    IN  IF p < StreamingCap THEN p ELSE StreamingCap

\* search_strategy={}
NoStrategy ==
    [keywords |-> <<>>, search_type |-> "", max_articles |-> 0,
     include_related_keywords |-> FALSE, include_today_issues |-> FALSE]

\* the search_strategy dictionary of a request req with extracted keywords kws
search_strategy(kws, req) ==
    [keywords |-> kws, search_type |-> "AND_priority",
     max_articles |-> req.max_articles,
     include_related_keywords |-> req.include_related_keywords,
     include_today_issues |-> req.include_today_issues]

\* a ConciergeResponse, and the absence of one (result=None)
ConciergeResponse(answer, key_points, refs, rk, rq, ti, citations_used, total_citations) ==
    [present |-> TRUE, answer |-> answer, key_points |-> key_points,
     references |-> refs, related_keywords |-> rk, related_questions |-> rq,
     today_issues |-> ti, citations_used |-> citations_used,
     total_citations |-> total_citations, search_strategy |-> NoStrategy]

NoResult ==
    [present |-> FALSE, answer |-> <<>>, key_points |-> <<>>, references |-> <<>>,
     related_keywords |-> <<>>, related_questions |-> <<>>, today_issues |-> <<>>,
     citations_used |-> <<>>, total_citations |-> 0, search_strategy |-> NoStrategy]

\* a strategy that echoes the target handed to _execute_advanced_search
MutStrategyOfSearch(response, strategy) ==
    [response EXCEPT !.search_strategy =
        [strategy EXCEPT !.max_articles = OrchestratorTarget]]

\* ConciergeResponse(..., search_strategy=search_strategy)
with_search_strategy(response, strategy) ==
    [response EXCEPT !.search_strategy = strategy]

\* a ConciergeProgress
ConciergeProgress(stage, progress, streaming_content, result) ==
    [stage |-> stage, progress |-> progress,
     streaming_content |-> streaming_content, result |-> result]

Progress(stage) == ConciergeProgress(stage, PROGRESS[stage], <<>>, NoResult)

\* the events of the two terminal yields
CompletedEvent(result) == ConciergeProgress("completed", PROGRESS["completed"], <<>>, result)
ErrorEvent == ConciergeProgress("error", PROGRESS["error"], <<>>, NoResult)

\* the answer and the key points of the no-results branch
NO_RESULTS_ANSWER == <<"sorry_no_articles_found">>
NO_RESULTS_KEY_POINTS ==
    <<"no_search_results", "try_other_keywords", "adjust_the_period",
      "use_more_general_terms">>
\* a no-results response that carries the first suggestion only
MutOneSuggestion(rk, rq) ==
    ConciergeResponse(NO_RESULTS_ANSWER, <<NO_RESULTS_KEY_POINTS[1]>>, <<>>, rk, rq, <<>>, <<>>, 0)

\* the response of the no-results branch
no_results_response(rk, rq) ==
    ConciergeResponse(NO_RESULTS_ANSWER, NO_RESULTS_KEY_POINTS, <<>>, rk, rq, <<>>, <<>>, 0)

\* the response built from the dictionary of the narrative step
final_response(ai, refs, rk, rq, ti) ==
    ConciergeResponse(ai.answer, ai.key_points, refs, rk, rq, ti,
                      ai.citations_used, ai.total_citations)

\* the response an ai_streaming event carries
partial_response(refs) ==
    IF refs # <<>> THEN ConciergeResponse(<<>>, <<>>, refs, <<>>, <<>>, <<>>, <<>>, 0)
    ELSE NoResult

\* a no-results branch that falls through to the collection step
MutNoReturn == "o_collect"

\* where the no-results branch leaves the orchestrator: it returns
after_no_results == "o_end"

\* the requests, and what query_processor.preprocess_query extracts
\* ConciergeRequest.max_articles: ge=5, default 10
MinRequestArticles == 5
\* the requests: max_articles at its default with every choice of the
\* include_* fields, and the smallest max_articles with their defaults
Requests ==
    [include_related_keywords : BOOLEAN, include_today_issues : BOOLEAN,
     include_related_questions : BOOLEAN, max_articles : {OrchestratorTarget}]
    \cup {[DefaultRequest EXCEPT !.max_articles = MinRequestArticles]}
KeywordLists == {<<>>, <<HBM, SAMSUNG>>, <<LG>>}

\* what bigkinds_client.get_issue_ranking can return: raise, or issues
IssueResults == {[ok |-> FALSE, issues |-> <<>>], [ok |-> TRUE, issues |-> <<"issue_1">>]}
get_today_issues(r) == IF r.ok THEN r.issues ELSE <<>>

\* the articles _execute_advanced_search can hand to an orchestrator
StreamDocuments ==
    { Doc("n1", SAMSUNG \o <<" ">> \o lower(HBM), AI, 50),
      Doc("n2", GPU, <<>>, 80),
      Doc("n3", HBM, <<>>, 150),
      Doc("n4", AI, <<>>, 0 - 5) }

SearchOutcomes(q) ==
    {[by |-> "final", result |-> final_return(a, OrchestratorTarget, q)] :
        a \in SeqsUpTo(StreamDocuments, MaxArticles)}
    \cup {[by |-> "fallback", result |-> fallback_return(r, Len(r.documents), q)] :
        r \in {[ok |-> FALSE, documents |-> <<>>], [ok |-> TRUE, documents |-> <<>>]}}

\* one sentence more than key_points takes, each long enough for a key point
S_MANY_LONG == join(<<" ">>, [i \in 1..(MaxKeyPoints + 1) |-> S_LONG])

\* a sentence of 31 characters that ends with a citation number, and a
\* second sentence
S_EDGE ==
    [i \in 1..(MinKeyPointLen + 1) |->
        IF i = MinKeyPointLen + 1 THEN "1" ELSE IF i % 2 = 1 THEN "ga" ELSE "da"]
    \o <<".", " ">> \o S_SHORT

\* the fragments a streaming completion can deliver, and the narratives it
\* delivers as one fragment
Chunks == {S_DEMAND, S_CITED1, <<" ">>}
ChunkLists == SeqsUpTo(Chunks, MaxChunks) \cup {<<S_MANY_LONG>>, <<S_EDGE>>}

InitStream ==
    /\ pc = "o_start"
    /\ variant \in {"batch", "streaming"}
    /\ request \in Requests
    /\ question \in Questions
    /\ date_ok = TRUE
    /\ max_articles = OrchestratorTarget
    /\ keywords = <<>>
    /\ all_articles = <<>>
    /\ accepted_by = <<>>
    /\ calls = <<>>
    /\ plain_answers = <<>>
    /\ last_result = "none"
    /\ outcome = NoOutcome
    /\ returned_by = "none"
    /\ response_text = <<>>
    /\ references = <<>>
    /\ parsed = NoParsed
    /\ extracted_keywords = <<>>
    /\ related_keywords = <<>>
    /\ related_questions = Unbound
    /\ today_issues = <<>>
    /\ events = <<>>
    /\ requests = <<>>
    /\ heap = <<>>

cascade_vars == <<question, date_ok, max_articles, keywords, accepted_by,
                  plain_answers, last_result>>

\* from the first yield up to the call of _execute_advanced_search
Analyse ==
    /\ pc = "o_start"
    /\ \E kws \in KeywordLists : extracted_keywords' = kws
    /\ events' = events
                 \o <<Progress("question_analysis"), Progress("keywords_extracted"),
                      Progress("search_strategy")>>
                 \o (IF variant = "batch" THEN <<Progress("search_strategy_ready")>>
                     ELSE <<>>)
                 \o <<Progress("news_search")>>
    /\ pc' = "o_search"
    /\ UNCHANGED <<cascade_vars, shared_vars, calls, all_articles, outcome, returned_by, response_text,
                   references, parsed, variant, request, related_keywords,
                   related_questions, today_issues>>

\* the search and the branch on its result
Search ==
    /\ pc = "o_search"
    /\ \E expanded \in expanded_keywords(extracted_keywords) :
         keywords' = unique_keywords(expanded)
    /\ \E o \in SearchOutcomes(question) :
         LET articles == o.result.documents
         IN  /\ outcome' = o.result
             /\ returned_by' = o.by
             /\ all_articles' = articles
             /\ IF articles = <<>> \/ o.result.search_failed
                THEN /\ events' = Append(events, Progress("no_results"))
                     /\ pc' = "o_no_results"
                ELSE /\ events' = Append(events, Progress("search_completed"))
                     /\ pc' = "o_collect"
    /\ UNCHANGED <<question, date_ok, max_articles, accepted_by, plain_answers,
                   last_result, shared_vars, calls, response_text, references, parsed, variant, request,
                   extracted_keywords, related_keywords, related_questions,
                   today_issues>>

\* the no-results branch
NoResults ==
    /\ pc = "o_no_results"
    /\ LET rk == IF extracted_keywords # <<>>
                 THEN default_related_keywords(extracted_keywords[1])
                 ELSE <<>>
           asks == /\ variant = "batch"
                   /\ extracted_keywords # <<>>
                   /\ request.include_related_questions
                   /\ (rk # <<>> \/ extracted_keywords # <<>>)
       IN  /\ related_keywords' = rk
           /\ \E generated \in RelatedQuestionLists :
                LET rq == IF asks THEN generated ELSE <<>>
                IN  /\ related_questions' = IF variant = "batch" THEN rq
                                            ELSE related_questions
                    /\ events' = Append(events, CompletedEvent(with_search_strategy(
                           no_results_response(rk, rq),
                           search_strategy(extracted_keywords, request))))
    /\ pc' = after_no_results
    /\ UNCHANGED <<cascade_vars, shared_vars, calls, all_articles, outcome, returned_by, response_text,
                   references, parsed, variant, request, extracted_keywords,
                   today_issues>>

\* history: a call of a provider, how it ended and what it gave
ProviderCall(provider, ok, answer) == [provider |-> provider, ok |-> ok, answer |-> answer]

\* a collection that announces the issues before the related keywords
MutIssuesAnnouncedFirst(v, wants_keywords, wants_issues, wants_questions) ==
    IF v = "batch" THEN <<Progress("parallel_collection")>>
    ELSE (IF wants_issues THEN <<Progress("today_issues")>> ELSE <<>>)
         \o (IF wants_keywords THEN <<Progress("related_keywords")>> ELSE <<>>)
         \o (IF wants_questions THEN <<Progress("related_questions")>> ELSE <<>>)

\* the events between search_completed and ai_analysis: one
\* parallel_collection event in the batch variant, one event per collection
\* that is made in the streaming variant
collection_events(v, wants_keywords, wants_issues, wants_questions) ==
    IF v = "batch" THEN <<Progress("parallel_collection")>>
    ELSE (IF wants_keywords THEN <<Progress("related_keywords")>> ELSE <<>>)
         \o (IF wants_issues THEN <<Progress("today_issues")>> ELSE <<>>)
         \o (IF wants_questions THEN <<Progress("related_questions")>> ELSE <<>>)

\* the collection of related keywords, issues and related questions, up to
\* the ai_analysis event
Collect ==
    /\ pc = "o_collect"
    /\ \E kr \in RelatedKeywordResults, ir \in IssueResults,
          generated \in RelatedQuestionLists :
         LET wants_keywords == request.include_related_keywords /\ extracted_keywords # <<>>
             rk == IF wants_keywords
                   THEN get_related_keywords(extracted_keywords[1], kr)
                   ELSE <<>>
             ti == IF request.include_today_issues THEN get_today_issues(ir) ELSE <<>>
             wants_questions == request.include_related_questions /\ rk # <<>>
         IN  /\ related_keywords' = rk
             /\ today_issues' = ti
             /\ calls' = calls
                         \o (IF wants_keywords
                             THEN <<ProviderCall("get_related_keywords", kr.ok, kr.keywords)>>
                             ELSE <<>>)
                         \o (IF request.include_today_issues
                             THEN <<ProviderCall("get_issue_ranking", ir.ok, ir.issues)>>
                             ELSE <<>>)
             /\ related_questions' =
                   IF variant = "batch" THEN related_questions
                   ELSE IF wants_questions THEN generated ELSE <<>>
             /\ events' =
                   events
                   \o collection_events(variant, wants_keywords,
                                        request.include_today_issues, wants_questions)
                   \o <<Progress("ai_analysis")>>
    /\ pc' = "o_generate"
    /\ UNCHANGED <<cascade_vars, shared_vars, all_articles, outcome, returned_by, response_text,
                   references, parsed, variant, request, extracted_keywords>>

\* the except clause of an orchestrator: one error event, and the end
Raise ==
    /\ events' = Append(events, ErrorEvent)
    /\ pc' = "o_end"

\* query_processor.preprocess_query raises after the first yield
AnalyseRaise ==
    /\ pc = "o_start"
    /\ events' = events \o <<Progress("question_analysis"), ErrorEvent>>
    /\ pc' = "o_end"
    /\ UNCHANGED <<cascade_vars, shared_vars, calls, all_articles, outcome, returned_by, response_text,
                   references, parsed, variant, request, extracted_keywords,
                   related_keywords, related_questions, today_issues>>

\* batch: the references, the narrative and the final response
GenerateBatch ==
    /\ pc = "o_generate"
    /\ variant = "batch"
    /\ IF ~references_valid(all_articles)
       THEN /\ Raise
            /\ UNCHANGED <<response_text, references, parsed>>
       ELSE \E r \in CompletionResults :
              LET ai_response == generate_ai_response_with_citations(
                                     question, all_articles, references', related_keywords, r)
                  generated == Append(events, Progress("response_generation"))
              IN  /\ references' = create_article_references(all_articles)
                  /\ response_text' = ai_response.text
                  /\ IF ai_response.raised
                     THEN /\ parsed' = parsed
                          /\ Raise
                     ELSE /\ parsed' = ai_response.value
                          /\ IF related_questions = Unbound
                             THEN /\ events' = Append(generated, ErrorEvent)
                                  /\ pc' = "o_end"
                             ELSE /\ events' = Append(generated, CompletedEvent(
                                         with_search_strategy(
                                             final_response(parsed', references',
                                                            related_keywords,
                                                            related_questions, today_issues),
                                             search_strategy(extracted_keywords, request))))
                                  /\ pc' = "o_end"
    /\ UNCHANGED <<cascade_vars, shared_vars, calls, all_articles, outcome, returned_by, variant, request,
                   extracted_keywords, related_keywords, related_questions,
                   today_issues>>

\* streaming: the references, one ai_streaming event per fragment, the
\* validation of the whole narrative and the final response
GenerateStreaming ==
    /\ pc = "o_generate"
    /\ variant = "streaming"
    /\ IF ~references_valid(all_articles)
       THEN /\ Raise
            /\ UNCHANGED <<response_text, references, parsed, calls>>
       ELSE \E sent \in ChunkLists, failed \in BOOLEAN :
              LET chunks == streamed_chunks(sent, failed)
                  streamed ==
                      [k \in DOMAIN chunks |->
                          ConciergeProgress("ai_streaming",
                              streaming_progress(streaming_response(chunks, k)),
                              streaming_response(chunks, k),
                              partial_response(references'))]
              IN  /\ references' = create_article_references(all_articles)
                  /\ response_text' = streaming_response(chunks, Len(chunks))
                  /\ parsed' = parse_and_validate_ai_response(response_text', references')
                  /\ calls' = Append(calls, ProviderCall("chat.completions.create",
                                                          ~failed, sent))
                  /\ events' = Append(events \o streamed, CompletedEvent(
                         with_search_strategy(
                             final_response(parsed', references', related_keywords,
                                            related_questions, today_issues),
                             search_strategy(extracted_keywords, request))))
                  /\ pc' = "o_end"
    /\ UNCHANGED <<cascade_vars, shared_vars, all_articles, outcome, returned_by, variant, request,
                   extracted_keywords, related_keywords, related_questions,
                   today_issues>>

NextStream ==
    Analyse \/ AnalyseRaise \/ Search \/ NoResults \/ Collect \/ GenerateBatch \/ GenerateStreaming

SpecStream == InitStream /\ [][NextStream]_vars

(***************************************************************************)
(* C18: one terminal event, and it is the last                             *)
(***************************************************************************)
Terminal(e) == e.stage \in {"completed", "error"}
Ended == pc = "o_end"
LastEvent == events[Len(events)]

\* C18: a progress stream that has run to its end holds exactly one
\* terminal event (completed or error) and that event is the last one:
\* nothing follows a terminal event, a completed event carries a result and
\* an error event carries none
C18_OneTerminalEventLast ==
    /\ \A i \in DOMAIN events : Terminal(events[i]) => i = Len(events) /\ Ended
    /\ Ended => events # <<>> /\ Terminal(LastEvent)
    /\ \A i \in DOMAIN events :
         /\ events[i].stage = "completed" => events[i].result.present
         /\ events[i].stage = "error" => ~events[i].result.present

\* a streaming request that streamed two fragments and completed
C18_Witness ==
    /\ Ended
    /\ LastEvent.stage = "completed"
    /\ LastEvent.result.references # <<>>
    /\ Cardinality({i \in DOMAIN events : events[i].stage = "ai_streaming"}) = 2

(***************************************************************************)
(* C19: nothing found ends in no_results, completed                        *)
(***************************************************************************)
Searched == returned_by # "none"
NothingFound == Searched /\ (outcome.documents = <<>> \/ outcome.search_failed)

Found == Searched /\ ~NothingFound

\* C20: when retrieval returned at least one document, the stream of
\* either orchestrator ends with completed carrying the full result (the
\* references of the documents, a non-empty answer and key points) and
\* holds no error event, whatever the narrative provider did
C20_FoundCompletes ==
    (Ended /\ Found) =>
        /\ LastEvent.stage = "completed"
        /\ LastEvent.result.present
        /\ Len(LastEvent.result.references) = Len(outcome.documents)
        /\ LastEvent.result.key_points # <<>>
        /\ \A i \in DOMAIN events : events[i].stage # "error"

(***************************************************************************)
(* C21: a failing collector gives an empty result for itself only          *)
(***************************************************************************)
Collected == Found /\ pc \in {"o_generate", "o_end"}
CallsOf(provider) == {i \in DOMAIN calls : calls[i].provider = provider}

\* C21: after the two collectors were joined the request has reached
\* ai_analysis; the issues are the issue provider's answer, or empty when it
\* failed; the related keywords are the keyword provider's answer when it
\* gave one, whatever the issue provider did, and empty when the keyword
\* lookup failed
C21_FailedCollectorGivesEmpty ==
    Collected =>
        /\ \E i \in DOMAIN events : events[i].stage = "ai_analysis"
        /\ \A i \in CallsOf("get_issue_ranking") :
             today_issues = IF calls[i].ok THEN calls[i].answer ELSE <<>>
        /\ \A i \in CallsOf("get_related_keywords") :
             /\ (calls[i].ok /\ calls[i].answer # <<>>) => related_keywords = calls[i].answer
             /\ ~calls[i].ok => related_keywords = <<>>

(***************************************************************************)
(* C22: the fragments are consumed in order and without loss                *)
(***************************************************************************)
RECURSIVE Concat(_)
Concat(fragments) ==
    IF fragments = <<>> THEN <<>> ELSE Head(fragments) \o Concat(Tail(fragments))

IsPrefix(s, t) == Len(s) <= Len(t) /\ SubSeq(t, 1, Len(s)) = s
AiStreaming == SelectSeq(events, LAMBDA e : e.stage = "ai_streaming")
StreamedAll == Ended /\ variant = "streaming" /\ CallsOf("chat.completions.create") # {}
Completion == calls[CHOOSE i \in CallsOf("chat.completions.create") : TRUE]

\* what the consumer must have seen of the fragments f
InOrder(f) ==
    /\ Len(AiStreaming) = Len(f)
    /\ \A k \in DOMAIN f :
         AiStreaming[k].streaming_content = Concat(SubSeq(f, 1, k))
    /\ \A k \in 1..(Len(AiStreaming) - 1) :
         IsPrefix(AiStreaming[k].streaming_content, AiStreaming[k + 1].streaming_content)
    /\ response_text = Concat(f)

\* C22 as stated: the k-th ai_streaming event carries the concatenation of
\* the provider's first k fragments, each content is a prefix of the next,
\* and the validator receives the concatenation of all fragments
C22_FragmentsInOrder == StreamedAll => InOrder(Completion.answer)

\* C22: the same, the fragments being those the provider delivered followed,
\* when the provider failed, by the error text as one more fragment
C22_FragmentsThenErrorText ==
    StreamedAll =>
        InOrder(IF Completion.ok THEN Completion.answer
                ELSE Append(Completion.answer, AI_ERROR_TEXT))

\* the provider failed after two different fragments
C22_Witness ==
    /\ StreamedAll
    /\ ~Completion.ok
    /\ Len(Completion.answer) = 2
    /\ Completion.answer[1] # Completion.answer[2]
    /\ Len(AiStreaming) = 3

(***************************************************************************)
(* C23: the stages call the provider one after the other                   *)
(***************************************************************************)
\* the cascade runs to its end once it has started
SpecFair == Spec /\ WF_vars(Next)

MaxStages == 5
StageOfPc ==
    CASE pc = "s1" -> 1 [] pc = "s2" -> 2 [] pc = "s3" -> 3 [] pc = "s4" -> 4
      [] pc = "s5" -> 5 [] OTHER -> 0
CascadeCalls == SelectSeq(calls, LAMBDA c : c.stage >= 1)
CascadeOver == pc \in {"final", "fallback", "done"}

\* a step that calls the provider appends one call; a call of the cascade
\* is the call of the stage the cascade is at, no call of that stage or of
\* a later one was made before, and the cascade has left the stage when
\* the call is over
CallsOneStageAtATime ==
    calls' # calls =>
        /\ Len(calls') = Len(calls) + 1
        /\ SubSeq(calls', 1, Len(calls)) = calls
        /\ LET call == calls'[Len(calls')]
           IN  call.stage >= 1 =>
                  /\ call.stage = StageOfPc
                  /\ \A i \in DOMAIN calls : calls[i].stage < call.stage
                  /\ pc' # pc

\* C23: the cascade's provider calls are made in strictly increasing stage
\* order, one call per stage at most and five at most, and the cascade
\* comes to its end
C23_SequentialStages ==
    /\ [][CallsOneStageAtATime]_vars
    /\ [](Len(CascadeCalls) <= MaxStages)
    /\ [](\A i \in DOMAIN CascadeCalls : CascadeCalls[i].stage \in 1..MaxStages)
    /\ <>CascadeOver

\* a cascade that called every stage from 1 to 5
C23_Witness ==
    /\ pc = "done"
    /\ Len(CascadeCalls) = MaxStages
    /\ \A i \in 1..MaxStages : CascadeCalls[i].stage = i

(***************************************************************************)
(* Two requests interleaved on one service instance                        *)
(*                                                                         *)
(* A request is the streaming orchestrator with the include_* flags off,   *)
(* one fragment, a provider that answers stage 1 and fails afterwards. It  *)
(* is suspended at every yield. Its frame (the local variables) is a       *)
(* record; the documents are objects of one heap, and a frame holds their  *)
(* addresses.                                                              *)
(***************************************************************************)
MaxShared == 2
RequestIds == {1, 2}

SharedDocuments ==
    { Doc("n1", SAMSUNG \o <<" ">> \o lower(HBM), AI, 50),
      Doc("n2", HBM, lower(SAMSUNG), 80) }

\* the document as the provider made it
Unscored(doc) == [doc EXCEPT !.relevance_score = NoScore]

\* what one request is given: the keywords preprocess_query extracts and
\* the documents search_news answers stage 1 with
Scripts ==
    [keywords : {<<SAMSUNG, HBM>>, <<HBM, AI>>},
     response : SeqsUpTo(SharedDocuments, MaxShared)]

\* the frame of a request before its first step; steps counts its steps
NewRequest(script) ==
    [script |-> script, pc |-> "y_question_analysis", steps |-> 0,
     extracted_keywords |-> <<>>, all_articles |-> <<>>, search_failed |-> FALSE,
     references |-> <<>>, streaming_response |-> <<>>, events |-> <<>>]

\* the documents at the addresses ids
Deref(h, ids) == [k \in DOMAIN ids |-> h[ids[k]]]

\* bigkinds_client.search_news: the answer is made of new objects
search_news(h, docs) ==
    [heap |-> h \o docs, documents |-> [k \in DOMAIN docs |-> Len(h) + k]]

\* F of the value, computed once
Bind(value, F(_)) == CHOOSE result \in {F(v) : v \in {value}} : TRUE

\* the addresses ids by descending relevance_score of their objects in h
ranked(h, ids) ==
    Bind(sort_by_relevance([k \in DOMAIN ids |->
                               [obj |-> ids[k],
                                relevance_score |-> h[ids[k]].relevance_score]]),
         LAMBDA sorted : [k \in DOMAIN sorted |-> sorted[k].obj])

\* a filter that scores every object the provider ever handed out
MutScoresEveryObject(h, ids, kws) ==
    IF ids = <<>> \/ kws = <<>> THEN [heap |-> h, documents |-> ids]
    ELSE Bind(SelectSeq(ids, LAMBDA i : accepts(Unscored(h[i]), kws)),
              LAMBDA accepted :
                Bind([i \in DOMAIN h |->
                        IF accepts(Unscored(h[i]), kws)
                        THEN [h[i] EXCEPT !.relevance_score =
                                             final_score(Unscored(h[i]), kws)]
                        ELSE h[i]],
                     LAMBDA h2 : [heap |-> h2, documents |-> ranked(h2, accepted)]))

\* _filter_relevant_documents on objects: doc["_relevance_score"] is written
\* into each accepted document of the argument, the accepted documents are
\* sorted
filter_in_place(h, ids, kws) ==
    IF ids = <<>> \/ kws = <<>> THEN [heap |-> h, documents |-> ids]
    ELSE Bind(SelectSeq(ids, LAMBDA i : accepts(Unscored(h[i]), kws)),
              LAMBDA accepted :
                Bind([i \in DOMAIN h |->
                        IF \E k \in DOMAIN accepted : accepted[k] = i
                        THEN [h[i] EXCEPT !.relevance_score =
                                             final_score(Unscored(h[i]), kws)]
                        ELSE h[i]],
                     LAMBDA h2 : [heap |-> h2, documents |-> ranked(h2, accepted)]))

\* _deduplicate_articles on objects: the first object of each news_id
deduplicate_objects(h, ids) ==
    LET kept == {k \in DOMAIN ids :
                    /\ h[ids[k]].news_id # ""
                    /\ \A j \in 1..(k - 1) : h[ids[j]].news_id # h[ids[k]].news_id}
    IN  Restrict(ids, kept)

\* _execute_advanced_search for keywords kws when the provider answers
\* stage 1 with docs and raises at the later stages
search_objects(h, kws, docs) ==
    Bind(search_news(h, docs),
         LAMBDA answer :
           Bind(filter_in_place(answer.heap, answer.documents, Slice(kws, AndKeywords)),
                LAMBDA filtered :
                  Bind(deduplicate_objects(filtered.heap,
                                           Slice(filtered.documents, OrchestratorTarget)),
                       LAMBDA final_articles :
                         [heap |-> IF docs = <<>> THEN answer.heap ELSE filtered.heap,
                          documents |-> IF docs = <<>> THEN <<>>
                                        ELSE Slice(final_articles, OrchestratorTarget),
                          search_failed |-> docs = <<>> \/ final_articles = <<>>])))

\* what a frame yields next
Yield(st, next_pc, event) ==
    [st EXCEPT !.pc = next_pc, !.steps = @ + 1, !.events = Append(@, event)]

\* the narrative of a provider that sends one fragment
ONE_FRAGMENT == streaming_response(<<S_DEMAND>>, 1)

\* one step of a request: the code from one yield to the next
request_step(st, h) ==
    CASE st.pc = "y_question_analysis" ->
            [st |-> Yield(st, "y_keywords_extracted", Progress("question_analysis")),
             heap |-> h]
      [] st.pc = "y_keywords_extracted" ->
            [st |-> Yield([st EXCEPT !.extracted_keywords = st.script.keywords],
                          "y_search_strategy", Progress("keywords_extracted")),
             heap |-> h]
      [] st.pc = "y_search_strategy" ->
            [st |-> Yield(st, "y_news_search", Progress("search_strategy")), heap |-> h]
      [] st.pc = "y_news_search" ->
            [st |-> Yield(st, "y_search", Progress("news_search")), heap |-> h]
      [] st.pc = "y_search" ->
            Bind(search_objects(h, st.extracted_keywords, st.script.response),
                 LAMBDA found :
                   [st |-> Yield([st EXCEPT !.all_articles = found.documents,
                                            !.search_failed = found.search_failed],
                                 IF found.documents = <<>> \/ found.search_failed
                                 THEN "y_no_results" ELSE "y_ai_analysis",
                                 IF found.documents = <<>> \/ found.search_failed
                                 THEN Progress("no_results")
                                 ELSE Progress("search_completed")),
                    heap |-> found.heap])
      [] st.pc = "y_no_results" ->
            [st |-> Yield(st, "y_end", CompletedEvent(with_search_strategy(
                        no_results_response(
                            default_related_keywords(st.extracted_keywords[1]), <<>>),
                        search_strategy(st.extracted_keywords, PlainRequest)))),
             heap |-> h]
      [] st.pc = "y_ai_analysis" ->
            [st |-> Yield(st, "y_ai_streaming", Progress("ai_analysis")), heap |-> h]
      [] st.pc = "y_ai_streaming" ->
            Bind(create_article_references(Deref(h, st.all_articles)),
                 LAMBDA refs :
                   [st |-> Yield([st EXCEPT !.references = refs,
                                            !.streaming_response = ONE_FRAGMENT],
                                 "y_completed",
                                 ConciergeProgress("ai_streaming",
                                                   streaming_progress(ONE_FRAGMENT),
                                                   ONE_FRAGMENT, partial_response(refs))),
                    heap |-> h])
      [] st.pc = "y_completed" ->
            LET parsed_response ==
                    parse_and_validate_ai_response(st.streaming_response, st.references)
            IN  [st |-> Yield(st, "y_end", CompletedEvent(with_search_strategy(
                        final_response(parsed_response, st.references, <<>>, <<>>, <<>>),
                        search_strategy(st.extracted_keywords, PlainRequest)))),
                 heap |-> h]
      [] OTHER -> [st |-> st, heap |-> h]

InitTwo ==
    /\ pc = "two"
    /\ requests \in [RequestIds -> {NewRequest(script) : script \in Scripts}]
    /\ heap = <<>>
    /\ question = "q1"
    /\ date_ok = TRUE
    /\ max_articles = OrchestratorTarget
    /\ keywords = <<>>
    /\ all_articles = <<>>
    /\ accepted_by = <<>>
    /\ calls = <<>>
    /\ plain_answers = <<>>
    /\ last_result = "none"
    /\ outcome = NoOutcome
    /\ returned_by = "none"
    /\ response_text = <<>>
    /\ references = <<>>
    /\ parsed = NoParsed
    /\ variant = "streaming"
    /\ request = PlainRequest
    /\ extracted_keywords = <<>>
    /\ related_keywords = <<>>
    /\ related_questions = Unbound
    /\ today_issues = <<>>
    /\ events = <<>>

\* the event loop resumes request r
Resume(r) ==
    /\ pc = "two"
    /\ requests[r].pc # "y_end"
    /\ \E after \in {request_step(requests[r], heap)} :
          /\ requests' = [requests EXCEPT ![r] = after.st]
          /\ heap' = after.heap
    /\ UNCHANGED <<pc, cascade_vars, calls, all_articles, outcome, returned_by,
                   response_text, references, parsed, variant, request,
                   extracted_keywords, related_keywords, related_questions,
                   today_issues, events>>

NextTwo == \E r \in RequestIds : Resume(r)

SpecTwo == InitTwo /\ [][NextTwo]_vars

(***************************************************************************)
(* C24: no state of one request reaches the other                          *)
(***************************************************************************)
\* the request with the script alone on the instance, after n steps
RECURSIVE Alone(_, _)
Alone(script, n) ==
    IF n = 0 THEN [st |-> NewRequest(script), heap |-> <<>>]
    ELSE Bind(Alone(script, n - 1),
              LAMBDA before : request_step(before.st, before.heap))

\* what a request has: its frame, with the documents in place of addresses
View(st, h) == [st EXCEPT !.all_articles = Deref(h, st.all_articles)]

\* the yields of one request with one fragment, up to completed
MaxSteps == 8

\* what each request has after each of its steps when it runs alone
AloneViews ==
    [script \in Scripts |->
        [n \in 0..MaxSteps |->
            Bind(Alone(script, n), LAMBDA alone : View(alone.st, alone.heap))]]

BuilderCalled == Found /\ Ended

\* C25: the reference list built for the documents found holds one
\* reference per document, in the order of the documents, the i-th built
\* from the i-th document with ref_id "ref" + i
C25_OneReferencePerDocument ==
    BuilderCalled =>
        /\ Len(references) = Len(all_articles)
        /\ \A i \in DOMAIN references :
              /\ references[i].ref_id = i
              /\ references[i].title = all_articles[i].title
              /\ references[i].relevance_score = all_articles[i].score

\* relevance_score is kept times 100: [0, 1] is 0..100
ScoreUnit == 100

\* C26: every reference built has a relevance score in [0, 1], and a
\* document whose raw score is above 100 or negative does not make the
\* request end in error
C26_EveryScoreBuilds ==
    BuilderCalled =>
        /\ \A i \in DOMAIN references :
              0 <= references[i].relevance_score
              /\ references[i].relevance_score <= ScoreUnit
        /\ (variant = "streaming" => LastEvent.stage # "error")

(***************************************************************************)
(* C27: the key points of a terminal result                                *)
(***************************************************************************)
\* the results the stream has carried in a completed event
Results == {events[i].result : i \in {j \in DOMAIN events : events[j].stage = "completed"}}

\* the sentences of an answer as the key point loop sees them: without
\* the citation numbers, without the whitespace around
CleanSentences(answer) ==
    LET sentences == split_key_sentences(answer)
    IN  {strip(sub_group1("nonspace", FALSE, strip(sentences[i]))) : i \in DOMAIN sentences}

\* the result was made by the citation validator, outside its fallback
ValidatorPath ==
    /\ Ended
    /\ Found
    /\ variant = "streaming"
    /\ LastEvent.stage = "completed"
    /\ ~parsed.fallback

articles_text(articles) ==
    [i \in DOMAIN articles |-> [ref_id |-> i, title |-> articles[i].title]]

\* the labelled articles of the prompt each variant builds
PromptLabels ==
    IF variant = "batch"
    THEN articles_text(verify_article_relevance(Slice(all_articles, TopArticles),
                                                question, related_keywords))
    ELSE articles_text(Slice(all_articles, TopArticles))

\* the reference list the citation numbers of the narrative are resolved in
ResolvingReferences ==
    IF variant = "batch" THEN Slice(references, TopArticles) ELSE references

\* the references were built and the prompt was written
PromptWritten == BuilderCalled /\ references # <<>> /\ PromptLabels # <<>>

MaxFilterLen == 3

\* the core keywords a strict stage can pass: keywords[:2] or keywords[:3]
\* of two keywords or more (stages 1 to 3), keywords[:3] of one (stage 4)
CoreKeywordLists == {<<HBM>>, <<SAMSUNG, HBM>>, <<HBM, AI>>, <<SAMSUNG, HBM, AI>>}

\* accepted_by of a document accumulated before the stage, and by it
Earlier == 0
ThisStage == 1

InitFilter ==
    /\ pc = "filter_in"
    /\ heap \in SeqsUpTo(Documents, MaxFilterLen)
    /\ keywords \in CoreKeywordLists
    /\ max_articles \in Targets
    /\ all_articles \in {a \in SeqsUpTo(Documents, 1) : Len(a) < max_articles}
    /\ accepted_by = [i \in DOMAIN all_articles |-> Earlier]
    /\ requests = <<>>
    /\ question = "q1"
    /\ date_ok = TRUE
    /\ calls = <<>>
    /\ plain_answers = <<>>
    /\ last_result = "none"
    /\ outcome = NoOutcome
    /\ returned_by = "none"
    /\ response_text = <<>>
    /\ references = <<>>
    /\ parsed = NoParsed
    /\ variant = "none"
    /\ request = DefaultRequest
    /\ extracted_keywords = <<>>
    /\ related_keywords = <<>>
    /\ related_questions = Unbound
    /\ today_issues = <<>>
    /\ events = <<>>

\* outcome.documents receives the filter's return, all_articles is extended
FilterStage ==
    /\ pc = "filter_in"
    /\ LET filtered_articles == filter_relevant_documents(heap, keywords)
           new_articles == remove_duplicates(filtered_articles, all_articles)
           grown == extend(all_articles, new_articles, max_articles)
       IN  /\ outcome' = [outcome EXCEPT !.documents = filtered_articles]
           /\ all_articles' = grown
           /\ accepted_by' =
                 accepted_by \o [i \in 1..(Len(grown) - Len(all_articles)) |-> ThisStage]
    /\ pc' = "filter_out"
    /\ UNCHANGED <<question, date_ok, max_articles, keywords, calls, plain_answers,
                   last_result, returned_by, answer_vars>>

NextFilter == FilterStage

SpecFilter == InitFilter /\ [][NextFilter]_vars

(***************************************************************************)
(* C29: the ranking of the strict filter                                   *)
(***************************************************************************)
Filtered == pc = "filter_out"

\* how many of the keywords occur in the title, and in title + content
title_match_count(doc) ==
    Cardinality({i \in DOMAIN keywords : in_title[doc][keywords[i]]})
total_match_count(doc) ==
    Cardinality({i \in DOMAIN keywords : in_full_text[doc][keywords[i]]})

\* title_match_count*10 + total_match_count*2 + provider_score/100, times 100
RankingScore(doc) ==
    title_match_count(doc) * TitleWeight + total_match_count(doc) * MatchWeight
    + doc.score

\* the places of the answer whose document holds every keyword
AcceptedPlaces == {i \in DOMAIN heap : total_match_count(heap[i]) = Len(keywords)}

\* place[k] is where document k of the list stood in the provider's answer:
\* every accepted place once, by descending score, equal scores by place
RanksAccepted(list, place) ==
    /\ \A k \in DOMAIN list :
          /\ Unscored(list[k]) = heap[place[k]]
          /\ list[k].relevance_score = RankingScore(heap[place[k]])
    /\ {place[k] : k \in DOMAIN list} = AcceptedPlaces
    /\ \A j, k \in DOMAIN list :
          j < k =>
             \/ list[j].relevance_score > list[k].relevance_score
             \/ /\ list[j].relevance_score = list[k].relevance_score
                /\ place[j] < place[k]

\* the documents the stage found in all_articles, and those it appended
Before == SelectSeq([i \in DOMAIN all_articles |-> i], LAMBDA i : accepted_by[i] = Earlier)
Appended == SubSeq(all_articles, Len(Before) + 1, Len(all_articles))

\* the ranked documents that were not accumulated yet
Candidates ==
    SelectSeq(outcome.documents,
              LAMBDA doc : \A i \in DOMAIN Before : all_articles[i].news_id # doc.news_id)

\* C29: the strict filter returns the accepted documents of the answer by
\* descending title_match_count*10 + total_match_count*2 +
\* provider_score/100, documents of equal score in the provider's order;
\* the stage appends the first of them that are not accumulated yet, as
\* many as the quota has room for
C29_RankedTopAppended ==
    Filtered =>
        /\ \E place \in [DOMAIN outcome.documents -> DOMAIN heap] :
              RanksAccepted(outcome.documents, place)
        /\ Appended = Slice(Candidates, max_articles - Len(Before))

\* two accepted documents of equal score stand in the provider's order
\* behind a later document of a higher score, and the quota has room for
\* two of the three
C29_Witness ==
    /\ Filtered
    /\ Len(outcome.documents) = 3
    /\ outcome.documents[1].relevance_score > outcome.documents[2].relevance_score
    /\ outcome.documents[2].relevance_score = outcome.documents[3].relevance_score
    /\ Unscored(outcome.documents[1]) = heap[3]
    /\ Len(Before) = 1
    /\ Len(Appended) = 2
    /\ Len(Candidates) = 3

(***************************************************************************)
(* C30: search_strategy and the parameters of the search                   *)
(***************************************************************************)
\* the stream ended with a result and the cascade had returned documents
CompletedAfterCascade ==
    /\ Ended
    /\ LastEvent.stage = "completed"
    /\ returned_by = "final"

\* C30: the search_strategy of the terminal result holds the target that
\* was passed to the cascade as max_articles and, as keywords, the keyword
\* list the stage queries were built from
C30_StrategyEchoesSearch ==
    CompletedAfterCascade =>
        /\ LastEvent.result.search_strategy.max_articles = max_articles
        /\ LastEvent.result.search_strategy.keywords = keywords

(***************************************************************************)
(* C31: the order of the progress events                                   *)
(***************************************************************************)
StageOf(i) == events[i].stage
StagesEmitted == {StageOf(i) : i \in DOMAIN events}

\* the stages a stream begins with, as the claim lists them
ClaimedOpening == <<"question_analysis", "keywords_extracted", "search_strategy",
                    "news_search">>

\* which stage can directly follow which, in both variants
CommonFollows ==
    {<<"question_analysis", "keywords_extracted">>,
     <<"keywords_extracted", "search_strategy">>,
     <<"news_search", "no_results">>, <<"news_search", "search_completed">>,
     <<"no_results", "completed">>}

BatchFollows ==
    CommonFollows
    \cup {<<"search_strategy", "search_strategy_ready">>,
          <<"search_strategy_ready", "news_search">>,
          <<"search_completed", "parallel_collection">>,
          <<"parallel_collection", "ai_analysis">>,
          <<"ai_analysis", "response_generation">>,
          <<"response_generation", "completed">>}

StreamingFollows ==
    CommonFollows
    \cup {<<"search_strategy", "news_search">>}
    \cup ({"search_completed"}
          \X {"related_keywords", "today_issues", "related_questions", "ai_analysis"})
    \cup ({"related_keywords"} \X {"today_issues", "related_questions", "ai_analysis"})
    \cup ({"today_issues"} \X {"related_questions", "ai_analysis"})
    \cup {<<"related_questions", "ai_analysis">>}
    \cup ({"ai_analysis", "ai_streaming"} \X {"ai_streaming", "completed"})

Follows == IF variant = "batch" THEN BatchFollows ELSE StreamingFollows

\* the collection events of the streaming variant are emitted exactly when
\* the collection is requested
CollectionAnnounced ==
    (variant = "streaming" /\ "ai_analysis" \in StagesEmitted)
    => /\ "related_keywords" \in StagesEmitted
          <=> (request.include_related_keywords /\ extracted_keywords # <<>>)
       /\ "today_issues" \in StagesEmitted <=> request.include_today_issues
       /\ "related_questions" \in StagesEmitted
          <=> (request.include_related_questions /\ related_keywords # <<>>)

C32_WithinTarget ==
    /\ Len(all_articles) <= max_articles
    /\ CascadeReturned => Len(outcome.documents) <= max_articles

\* stage 5 has filled the quota and the final return gives a full list
C32_Witness ==
    /\ returned_by = "final"
    /\ Len(all_articles) = max_articles
    /\ Len(outcome.documents) = max_articles
    /\ \E i \in DOMAIN accepted_by : accepted_by[i] = 5

(***************************************************************************)
(* C33: total_hits and the number of documents returned                    *)
(***************************************************************************)
\* C33: in every outcome of the cascade that is not failed, on the early
\* returns and on the final return, total_hits equals the number of
\* documents returned:
C33_TotalHitsIsCount ==
    (CascadeReturned /\ ~outcome.search_failed)
    => outcome.total_hits = Len(outcome.documents)

\* the same on the final return only
C33_FinalTotalHitsIsCount ==
    (returned_by = "final" /\ ~outcome.search_failed)
    => outcome.total_hits = Len(outcome.documents)

(***************************************************************************)
(* C34: the keyword-count gates of the cascade                             *)
(***************************************************************************)
\* the cascade has evaluated the guard of stage k: it is at a later stage,
\* or it returned at stage k or later, or it raised (it raises at stage 3 or
\* later, and at stage 3 when the count gate of stage 3 holds)
Passed(k) ==
    \/ pc \in StagePcs /\ StageOfPc > k
    \/ pc = "final"
    \/ returned_by = "final"
    \/ returned_by = "early" /\ calls[Len(calls)].stage >= k
    \/ /\ pc = "fallback" \/ returned_by = "fallback"
       /\ keywords # <<>>
       /\ k <= 3

\* the count gate of stage k, for the count the cascade had at stage k
CountGate(k) ==
    CASE k \in {1, 2} -> TRUE
      [] k \in {3, 4} -> stage34_gate(CountBefore(k), max_articles)
      [] OTHER -> stage5_gate(CountBefore(k), keywords)

\* C34: with an empty keyword list the cascade calls the provider at no
\* stage and its outcome is search_failed; with one keyword only stages 4
\* and 5 call the provider; with two or more keywords every stage the
\* cascade comes to and whose count gate holds calls the provider:
C34_KeywordGating ==
    /\ (keywords = <<>> /\ pc # "start") => StageCalls = {}
    /\ (keywords = <<>> /\ CascadeReturned) => outcome.search_failed
    /\ Len(keywords) = 1 => CalledStages \subseteq {4, 5}
    /\ Len(keywords) >= 2
       => \A k \in 1..MaxStages : (Passed(k) /\ CountGate(k)) => k \in CalledStages

\* the same for a date_to that strptime can parse
C34_GatingWhenDateParses == date_ok => C34_KeywordGating

(***************************************************************************)
(* C39: no accepted document is lost                                       *)
(***************************************************************************)
\* every accumulated document that has a news_id is among the documents of
\* the outcome
AcceptedReturned ==
    \A i \in DOMAIN all_articles :
        all_articles[i].news_id # ""
        => \E j \in DOMAIN outcome.documents :
              outcome.documents[j].news_id = all_articles[i].news_id

\* C39: when _execute_advanced_search has returned, every document a stage
\* appended to the accumulated set and that has a non-empty news_id is
\* among the documents returned, also when a later stage failed or raised:
C39_NoAcceptedLost == pc = "done" => AcceptedReturned

\* the same for the returns of the cascade itself
C39_KeptWhenCascadeReturns == CascadeReturned => AcceptedReturned

(***************************************************************************)
(* C35: the validator's answer as its own input                            *)
(***************************************************************************)
\* _parse_and_validate_ai_response(answer, references) for the answer of the
\* first pass
SecondPass == parse_and_validate_ai_response(parsed.answer, references)

\* C35: the answer of _parse_and_validate_ai_response is a fixed point: the
\* validator run on the answer it returned, with the same references,
\* returns that answer again (no further marker is added), also when a cited
\* sentence ends in ')' or in a quote and another sentence follows:
C35_AnswerIsFixedPoint == Validated => SecondPass.answer = parsed.answer

\* the same for the answers in which a detection pattern finds a marker
C35_FixedPointWhenDetected ==
    (Validated /\ has_existing_citations(parsed.answer))
    => SecondPass.answer = parsed.answer

(***************************************************************************)
(* C36: the records of citations_used                                      *)
(***************************************************************************)
\* the three citation_patterns, in the order of the loop
CitationPatterns ==
    <<[class |-> "letter_punct", punct_ok |-> TRUE],
      [class |-> "word", punct_ok |-> FALSE],
      [class |-> "nonspace", punct_ok |-> TRUE]>>

\* where in t pattern k finds the number n as a marker
MarkersOf(t, k, n) ==
    {p \in DOMAIN t :
        /\ MarkerAt(CitationPatterns[k].class, CitationPatterns[k].punct_ok, t, p)
        /\ int(SubSeq(t, p + 1, RunEnd(t, p + 1))) = n}

Marked(t, n) == \E k \in DOMAIN CitationPatterns : MarkersOf(t, k, n) # {}

\* the place of the first marker n in the text
FirstInText(t, n) ==
    LET places == UNION {MarkersOf(t, k, n) : k \in DOMAIN CitationPatterns}
    IN  CHOOSE p \in places : \A q \in places : p <= q

\* the place of the first marker n in the order of the extraction: pattern
\* by pattern, each pattern from left to right
FirstExtracted(t, n) ==
    LET k == CHOOSE i \in DOMAIN CitationPatterns :
                 /\ MarkersOf(t, i, n) # {}
                 /\ \A j \in 1..(i - 1) : MarkersOf(t, j, n) = {}
        p == CHOOSE q \in MarkersOf(t, k, n) : \A r \in MarkersOf(t, k, n) : q <= r
    IN  k * (Len(t) + 1) + p

Distinct(s) == \A i, j \in DOMAIN s : i # j => s[i] # s[j]

\* C36 as stated: the citation numbers of citations_used are pairwise
\* distinct and stand in the order of their first marker in the answer,
\* total_citations is the length of citations_used, and citations_used is
\* empty for an empty reference list:
C36_DistinctInTextOrder ==
    Validated =>
        /\ Distinct(UsedNumbers)
        /\ \A i, j \in DOMAIN UsedNumbers :
              (i < j /\ Marked(parsed.answer, UsedNumbers[i])
                     /\ Marked(parsed.answer, UsedNumbers[j]))
              => FirstInText(parsed.answer, UsedNumbers[i])
                 < FirstInText(parsed.answer, UsedNumbers[j])
        /\ parsed.total_citations = Len(parsed.citations_used)
        /\ references = <<>> => parsed.citations_used = <<>>

\* C36: the citation numbers of citations_used are pairwise distinct and
\* stand in the order in which the extraction first finds them (pattern by
\* pattern, each pattern from left to right); with references
\* total_citations is the length of citations_used; without references
\* citations_used is empty and total_citations counts the different marker
\* numbers from 1 to 10 of the answer:
C36_DistinctInExtractionOrder ==
    Validated =>
        /\ Distinct(UsedNumbers)
        /\ \A i, j \in DOMAIN UsedNumbers :
              (i < j /\ Marked(parsed.answer, UsedNumbers[i])
                     /\ Marked(parsed.answer, UsedNumbers[j]))
              => FirstExtracted(parsed.answer, UsedNumbers[i])
                 < FirstExtracted(parsed.answer, UsedNumbers[j])
        /\ references # <<>> => parsed.total_citations = Len(parsed.citations_used)
        /\ references = <<>>
           => /\ parsed.citations_used = <<>>
              /\ ~parsed.fallback
                 => parsed.total_citations
                    = Cardinality({n \in 1..NoRefMaxCitations : Marked(parsed.answer, n)})

\* two citations whose numbers stand in the text in the other order, one of
\* them twice in the list of the extraction
C36_Witness ==
    /\ Validated
    /\ response_text = S_PAREN_CITED2
    /\ Len(references) = 2
    /\ UsedNumbers = <<1, 2>>
    /\ FirstInText(parsed.answer, 2) < FirstInText(parsed.answer, 1)

(***************************************************************************)
(* C37: the request flags                                                  *)
(***************************************************************************)
\* the terminal result leaves out what the request did not ask for, and the
\* issue provider is not called when the issues were not asked for
FlagsHonoured ==
    /\ (Ended /\ LastEvent.stage = "completed")
       => /\ ~request.include_related_keywords
             => LastEvent.result.related_keywords = <<>>
          /\ ~request.include_today_issues => LastEvent.result.today_issues = <<>>
    /\ ~request.include_today_issues => CallsOf("get_issue_ranking") = {}

\* C37: on every path, the no-results path included, the terminal result
\* has no related keywords when include_related_keywords is false and no
\* issues when include_today_issues is false, and then the issue provider is
\* never called:
C37_FlagsHonoured == FlagsHonoured

\* the same for the requests whose retrieval found documents
C37_FlagsHonouredWhenFound == Found => FlagsHonoured

(***************************************************************************)
(* C38: the progress values                                                *)
(***************************************************************************)
\* C38: along every progress stream the progress lies in 0..100 and does
\* not decrease from one event to the next up to and including completed,
\* which has progress 100; only the terminal error event sets it to 0; the
\* progress of an ai_streaming event lies in 75..90 whatever the length of
\* the narrative:
C38_ProgressMonotone ==
    /\ \A i \in DOMAIN events :
          /\ events[i].progress \in 0..100
          /\ events[i].stage = "completed" => events[i].progress = 100
          /\ events[i].progress = 0 => events[i].stage = "error"
          /\ events[i].stage = "ai_streaming"
             => events[i].progress \in StreamingBase..StreamingCap
    /\ \A i \in DOMAIN events :
          (i < Len(events) /\ events[i + 1].stage # "error")
          => events[i].progress <= events[i + 1].progress

\* a completed streaming request with an ai_streaming event whose narrative
\* is long enough for the cap, and one below the cap
C38_Witness ==
    /\ Ended
    /\ LastEvent.stage = "completed"
    /\ \E i \in DOMAIN events :
          /\ events[i].stage = "ai_streaming"
          /\ events[i].progress = StreamingCap
          /\ StreamingBase + (Len(events[i].streaming_content) \div StreamingStep)
             > StreamingCap

====
